---- MODULE Spec2Model ----
(***************************************************************************)
(* Model of the BPMN process engine of darosuardiaz/bpmn-generator:        *)
(* validator, flattener (process-transformer), XML generator, XML parser   *)
(* (json-generator), the editing functions and the editing session.        *)
(*                                                                         *)
(* Strings are sequences of one-character strings, so that the template    *)
(* literals `${id}-join` and `${source}-${target}` and the XML escaping    *)
(* are computed as the code computes them.  An optional value (undefined / *)
(* null) is the empty sequence None, a present value x is Some(x) = <<x>>. *)
(***************************************************************************)
EXTENDS Integers, Sequences, FiniteSets, TLC

VARIABLES
    \* generation pipeline (generateBpmnFromDescription, then a parse of the emitted XML)
    pc,         \* position of the request
    process,    \* the hierarchical process returned by the LLM
    flat,       \* FlatBPMNStructure returned by BpmnProcessTransformer.transform
    xml,        \* children of the <process> element of the emitted document
    parsed,     \* result of BpmnJsonGenerator.createBpmnJson on xml
    \* parser on an uploaded document (editBpmnFromInstructions, first step)
    doc,        \* children of the <process> element of the uploaded document
    docResult,  \* result of createBpmnJson(doc)
    \* editing session (BpmnEditingService)
    heap,       \* the JS heap: mutable arrays and branch objects by address
    thisProcess,\* this.process: address of the process given to the constructor
    snapshot,   \* value of this.process when the session was constructed
    updated,    \* updatedProcess: Some(address) once an edit has been applied
    phase,      \* "initial", "iterative", "returned", "failed"
    iteration,  \* loop variable of applyIntermediateEdits
    attempts,   \* loop variable of the retry loop
    prompt,     \* what the next prompt carries: the process or an error text
    calls,      \* number of createJsonCompletion calls made so far
    last,       \* the last attempt: its outcome, the process it was given
    changeRequest, \* this.changeRequest
    call,       \* a function of the program and the arguments it is called with
    callResult, \* what the call returned or threw
    \* edit request (editBpmnFromInstructions)
    stream,     \* the events enqueued on the controller of the response stream
    \* instances of the engine's classes and what their callers hold
    instances,  \* the fields of the transformer and parser instances
    results,    \* the structures and values returned to the callers, in order
    walk        \* the parser at work: its pending calls and the queue of tracePaths

vars == <<pc, process, flat, xml, parsed, doc, docResult, heap, thisProcess,
          snapshot, updated, phase, iteration, attempts, prompt, calls, last,
          changeRequest, call, callResult, stream,
          instances, results, walk>>

pipeVars == <<pc, process, flat, xml, parsed>>
docVars  == <<doc, docResult>>
callVars == <<call, callResult, stream>>
instVars == <<instances, results, walk>>
sessVars == <<heap, thisProcess, snapshot, updated, phase, iteration, attempts,
              prompt, calls, last, changeRequest>>

-----------------------------------------------------------------------------
(* Optional values and JS truthiness *)

None == <<>>
Some(x) == <<x>>

\* a string is truthy iff it is present and non-empty
Truthy(opt) == opt # None /\ opt[1] # <<>>

\* a || b on optional strings
OrElse(a, b) == IF Truthy(a) THEN a ELSE b

\* x || null
OrNull(opt) == IF Truthy(opt) THEN opt ELSE None

\* String.prototype.trim() === "" on the characters used here
IsBlank(s) == \A i \in 1..Len(s) : s[i] = " "

Str1(c) == <<c>>

SeqToSet(s) == {s[i] : i \in 1..Len(s)}

RECURSIVE Concat(_)
Concat(ss) == IF ss = <<>> THEN <<>> ELSE Head(ss) \o Concat(Tail(ss))

NoDuplicates(s) == \A i, j \in 1..Len(s) : s[i] = s[j] => i = j

-----------------------------------------------------------------------------
(* Data model (types.ts): elements of the hierarchical process *)

Leaf(type, id, label) ==
    [type |-> type, id |-> id, label |-> label, has_join |-> None, branches |-> <<>>]

ExclusiveGateway(id, label, hasJoin, branches) ==
    [type |-> "exclusiveGateway", id |-> id, label |-> label,
     has_join |-> Some(hasJoin), branches |-> branches]

ParallelGateway(id, branches) ==
    [type |-> "parallelGateway", id |-> id, label |-> None,
     has_join |-> None, branches |-> branches]

ExclusiveBranch(condition, path, next) ==
    [condition |-> condition, path |-> path, next |-> next]

isTask(element) == element.type \in {"task", "userTask", "serviceTask"}
isExclusiveGateway(element) == element.type = "exclusiveGateway"
isParallelGateway(element) == element.type = "parallelGateway"
isGateway(element) == isExclusiveGateway(element) \/ isParallelGateway(element)

\* the element list of branch b of a gateway: branch.path or the branch itself
BranchPath(element, b) ==
    IF isExclusiveGateway(element) THEN element.branches[b].path
    ELSE element.branches[b]

-----------------------------------------------------------------------------
(* Path utilities (helpers.ts) *)

RECURSIVE getAllIds(_)
getAllIds(proc) ==
    IF proc = <<>> THEN <<>>
    ELSE LET element == Head(proc)
             nested == IF isGateway(element)
                       THEN Concat([b \in 1..Len(element.branches) |->
                                       getAllIds(BranchPath(element, b))])
                       ELSE <<>>
         IN <<element.id>> \o nested \o getAllIds(Tail(proc))

-----------------------------------------------------------------------------
(* Validator (validator.ts).  A validation returns None, or Some(message). *)

supportedTypes ==
    {"task", "userTask", "serviceTask", "startEvent", "endEvent",
     "exclusiveGateway", "parallelGateway"}

validateTask(element) ==
    IF ~Truthy(element.label) THEN Some("Task element is missing a label")
    ELSE IF IsBlank(element.label[1]) THEN Some("Task element has invalid label")
    ELSE None

RECURSIVE validateBranchesFrom(_, _)
validateBranchesFrom(branches, i) ==
    IF i > Len(branches) THEN None
    ELSE IF ~Truthy(Some(branches[i].condition))
         THEN Some("Invalid branch in exclusive gateway (missing condition)")
    ELSE IF IsBlank(branches[i].condition)
         THEN Some("Invalid branch condition in exclusive gateway")
    ELSE validateBranchesFrom(branches, i + 1)

validateExclusiveGateway(element) ==
    IF ~Truthy(element.label) THEN Some("Exclusive gateway is missing a label")
    ELSE IF IsBlank(element.label[1]) THEN Some("Exclusive gateway has invalid label")
    ELSE IF Len(element.branches) < 2
         THEN Some("Exclusive gateway must have at least 2 branches")
    ELSE IF element.has_join = None
         THEN Some("Exclusive gateway must have 'has_join' boolean field")
    ELSE validateBranchesFrom(element.branches, 1)

validateParallelGateway(element) ==
    IF Len(element.branches) < 2
    THEN Some("Parallel gateway must have at least 2 branches")
    ELSE None

validateElement(element) ==
    IF element.id = <<>> THEN Some("Element is missing an ID")
    ELSE IF element.type \notin supportedTypes THEN Some("Unsupported element type")
    ELSE IF isTask(element) THEN validateTask(element)
    ELSE IF isExclusiveGateway(element) THEN validateExclusiveGateway(element)
    ELSE IF isParallelGateway(element) THEN validateParallelGateway(element)
    ELSE None

\* the loop of validateBpmn from position index, with the call's own seenIds
RECURSIVE validateBpmnFrom(_, _, _), validateNested(_, _)
validateBpmnFrom(proc, index, seenIds) ==
    IF index > Len(proc) THEN None
    ELSE LET element == proc[index]
             e1 == validateElement(element)
         IN IF e1 # None THEN e1
            ELSE IF element.id \in seenIds THEN Some("Duplicate element ID found")
            ELSE LET e2 == IF isGateway(element) THEN validateNested(element, 1)
                           ELSE None
                 IN IF e2 # None THEN e2
                    ELSE validateBpmnFrom(proc, index + 1, seenIds \cup {element.id})

\* for (const branch of element.branches) validateBpmn(branch.path | branch):
\* every nested call starts with a new, empty seenIds
validateNested(element, b) ==
    IF b > Len(element.branches) THEN None
    ELSE LET e == validateBpmnFrom(BranchPath(element, b), 1, {})
         IN IF e # None THEN e ELSE validateNested(element, b + 1)

validateBpmn(proc) == validateBpmnFrom(proc, 1, {})

validateSingleStartEvent(proc) ==
    LET startEvents == SelectSeq(proc, LAMBDA elem : elem.type = "startEvent")
    IN IF Len(startEvents) = 0 THEN Some("Process must contain at least one start event")
       ELSE IF Len(startEvents) > 1 THEN Some("Process must contain exactly one start event")
       ELSE None

\* validateUniqueIds threads one seenIds set through the whole tree;
\* the result is [err, seen]
RECURSIVE uniqueIdsFrom(_, _, _), uniqueIdsNested(_, _, _)
uniqueIdsFrom(proc, index, seenIds) ==
    IF index > Len(proc) THEN [err |-> None, seen |-> seenIds]
    ELSE LET element == proc[index]
         IN IF element.id \in seenIds
            THEN [err |-> Some("Duplicate element ID found"), seen |-> seenIds]
            ELSE LET r == IF isGateway(element)
                          THEN uniqueIdsNested(element, 1, seenIds \cup {element.id})
                          ELSE [err |-> None, seen |-> seenIds \cup {element.id}]
                 IN IF r.err # None THEN r
                    ELSE uniqueIdsFrom(proc, index + 1, r.seen)

uniqueIdsNested(element, b, seenIds) ==
    IF b > Len(element.branches) THEN [err |-> None, seen |-> seenIds]
    ELSE LET r == uniqueIdsFrom(BranchPath(element, b), 1, seenIds)
         IN IF r.err # None THEN r ELSE uniqueIdsNested(element, b + 1, r.seen)

validateUniqueIds(proc) == uniqueIdsFrom(proc, 1, {}).err


-----------------------------------------------------------------------------
(* Flattener (process-transformer.ts, class BpmnProcessTransformer).       *)
(* The transformer state is st = [elements, flows].                        *)

JoinSuffix == <<"-", "j", "o", "i", "n">>

\* `${element.id}-join`
JoinId(id) == id \o JoinSuffix

\* `${sourceRef}-${targetRef}`
DefaultFlowId(sourceRef, targetRef) == sourceRef \o <<"-">> \o targetRef

FlatElement(id, type, label) ==
    [id |-> id, type |-> type, label |-> label, incoming |-> <<>>, outgoing |-> <<>>]

EmptyStructure == [elements |-> <<>>, flows |-> <<>>]

flowExists(st, sourceRef, targetRef) ==
    \E i \in 1..Len(st.flows) :
        st.flows[i].sourceRef = sourceRef /\ st.flows[i].targetRef = targetRef

\* addFlow(sourceRef, targetRef, undefined, condition)
addFlow(st, sourceRef, targetRef, condition) ==
    IF flowExists(st, sourceRef, targetRef) THEN st
    ELSE [st EXCEPT !.flows =
             Append(@, [id |-> DefaultFlowId(sourceRef, targetRef),
                        sourceRef |-> sourceRef, targetRef |-> targetRef,
                        condition |-> OrNull(condition)])]

pushElement(st, flatElement) == [st EXCEPT !.elements = Append(@, flatElement)]

\* this.elements.push(...branchStructure.elements); this.flows.push(...branchStructure.flows)
mergeBranch(st, branchStructure) ==
    [elements |-> st.elements \o branchStructure.elements,
     flows |-> st.flows \o branchStructure.flows]

\* the last loop of transform: incoming and outgoing of every element
fillReferences(st) ==
    [st EXCEPT !.elements =
        [i \in 1..Len(st.elements) |->
            LET element == st.elements[i]
                inc == SelectSeq(st.flows, LAMBDA f : f.targetRef = element.id)
                out == SelectSeq(st.flows, LAMBDA f : f.sourceRef = element.id)
            IN [element EXCEPT !.incoming = [k \in 1..Len(inc) |-> inc[k].id],
                               !.outgoing = [k \in 1..Len(out) |-> out[k].id]]]]

RECURSIVE transform(_, _), processElements(_, _, _, _),
          exclusiveBranches(_, _, _, _, _), parallelBranches(_, _, _, _)

\* transformBranch: a new transformer instance
transformBranch(branch, nextElementId) == transform(branch, nextElementId)

\* the branch loop of handleExclusiveGateway from branch b
exclusiveBranches(st, element, joinGatewayId, nextElementId, b) ==
    IF b > Len(element.branches) THEN st
    ELSE LET branch == element.branches[b]
             target == OrElse(branch.next, OrElse(joinGatewayId, nextElementId))
         IN IF branch.path = <<>>
            THEN exclusiveBranches(
                     IF Truthy(target)
                     THEN addFlow(st, element.id, target[1], Some(branch.condition))
                     ELSE st,
                     element, joinGatewayId, nextElementId, b + 1)
            ELSE LET branchStructure == transformBranch(branch.path, target)
                     merged == mergeBranch(st, branchStructure)
                     linked == IF Len(branchStructure.elements) > 0
                               THEN addFlow(merged, element.id,
                                            branchStructure.elements[1].id,
                                            Some(branch.condition))
                               ELSE merged
                 IN exclusiveBranches(linked, element, joinGatewayId, nextElementId, b + 1)

\* handleExclusiveGateway: [st, join] with join the join gateway ID or None
handleExclusiveGateway(st, element, nextElementId) ==
    LET hasJoin == element.has_join = Some(TRUE)
        joinGatewayId == IF hasJoin THEN Some(JoinId(element.id)) ELSE None
        st1 == IF hasJoin
               THEN pushElement(st, FlatElement(JoinId(element.id), "exclusiveGateway", None))
               ELSE st
    IN [st |-> exclusiveBranches(st1, element, joinGatewayId, nextElementId, 1),
        join |-> joinGatewayId]

\* the branch loop of handleParallelGateway from branch b
parallelBranches(st, element, joinGatewayId, b) ==
    IF b > Len(element.branches) THEN st
    ELSE LET branchStructure == transformBranch(element.branches[b], Some(joinGatewayId))
             merged == mergeBranch(st, branchStructure)
             n == Len(branchStructure.elements)
             linked == IF n > 0
                       THEN addFlow(addFlow(merged, element.id,
                                            branchStructure.elements[1].id, None),
                                    branchStructure.elements[n].id, joinGatewayId, None)
                       ELSE merged
         IN parallelBranches(linked, element, joinGatewayId, b + 1)

\* handleParallelGateway without the push of the join gateway
handleParallelGatewayNoJoinElement(st, element) ==
    LET joinGatewayId == JoinId(element.id)
    IN [st |-> parallelBranches(st, element, joinGatewayId, 1),
        join |-> Some(joinGatewayId)]

handleParallelGateway(st, element) ==
    LET joinGatewayId == JoinId(element.id)
        st1 == pushElement(st, FlatElement(joinGatewayId, "parallelGateway", None))
    IN [st |-> parallelBranches(st1, element, joinGatewayId, 1),
        join |-> Some(joinGatewayId)]

\* the loop of processElements from position index
processElements(st, proc, parentNextElementId, index) ==
    IF index > Len(proc) THEN st
    ELSE LET element == proc[index]
             nextElementId == IF index < Len(proc) THEN Some(proc[index + 1].id)
                              ELSE parentNextElementId
             st1 == pushElement(st, FlatElement(element.id, element.type,
                                                OrNull(element.label)))
             st2 == IF isExclusiveGateway(element)
                    THEN LET r == handleExclusiveGateway(st1, element, nextElementId)
                         IN IF Truthy(r.join) /\ Truthy(nextElementId)
                            THEN addFlow(r.st, r.join[1], nextElementId[1], None)
                            ELSE r.st
                    ELSE IF isParallelGateway(element)
                    THEN LET r == handleParallelGateway(st1, element)
                         IN IF Truthy(nextElementId)
                            THEN addFlow(r.st, r.join[1], nextElementId[1], None)
                            ELSE r.st
                    ELSE IF Truthy(nextElementId) /\ element.type # "endEvent"
                    THEN addFlow(st1, element.id, nextElementId[1], None)
                    ELSE st1
         IN processElements(st2, proc, parentNextElementId, index + 1)

transform(proc, parentNextElementId) ==
    fillReferences(processElements(EmptyStructure, proc, parentNextElementId, 1))


-----------------------------------------------------------------------------
(* XML generator (xml-generator.ts).  The document is modelled by the      *)
(* children of its <process> element; a child is a node with its tag name  *)
(* (optional prefix and local name) and the raw text of its attributes.    *)

RECURSIVE replaceAll(_, _, _)
\* str.replace(/c/g, by)
replaceAll(str, c, by) ==
    IF str = <<>> THEN <<>>
    ELSE (IF Head(str) = c THEN by ELSE <<Head(str)>>) \o replaceAll(Tail(str), c, by)

escapeXml(str) ==
    replaceAll(
      replaceAll(
        replaceAll(
          replaceAll(
            replaceAll(str, "&", <<"&", "a", "m", "p", ";">>),
            "<", <<"&", "l", "t", ";">>),
          ">", <<"&", "g", "t", ";">>),
        "\"", <<"&", "q", "u", "o", "t", ";">>),
      "'", <<"&", "a", "p", "o", "s", ";">>)

XmlNode(prefix, tag, id, name, sourceRef, targetRef) ==
    [prefix |-> prefix, tag |-> tag, id |-> id, name |-> name,
     sourceRef |-> sourceRef, targetRef |-> targetRef]

elementNode(element) ==
    XmlNode(None, element.type, Some(escapeXml(element.id)),
            IF Truthy(element.label) THEN Some(escapeXml(element.label[1])) ELSE None,
            None, None)

flowNode(flow) ==
    XmlNode(None, "sequenceFlow", Some(escapeXml(flow.id)),
            IF Truthy(flow.condition) THEN Some(escapeXml(flow.condition[1])) ELSE None,
            Some(escapeXml(flow.sourceRef)), Some(escapeXml(flow.targetRef)))

\* the <process> children written by createBpmnXml for a flat structure
processChildren(transformedProcess) ==
    [i \in 1..Len(transformedProcess.elements) |->
        elementNode(transformedProcess.elements[i])]
    \o [i \in 1..Len(transformedProcess.flows) |-> flowNode(transformedProcess.flows[i])]

createBpmnXml(proc) == [process |-> Some(processChildren(transform(proc, None)))]

-----------------------------------------------------------------------------
(* DOMParser: attribute values are read with the five entities decoded;    *)
(* a bare "&" or "<" in an attribute value is a parse error.               *)

Entities ==
    << [text |-> <<"&", "a", "m", "p", ";">>, char |-> "&"],
       [text |-> <<"&", "l", "t", ";">>, char |-> "<"],
       [text |-> <<"&", "g", "t", ";">>, char |-> ">"],
       [text |-> <<"&", "q", "u", "o", "t", ";">>, char |-> "\""],
       [text |-> <<"&", "a", "p", "o", "s", ";">>, char |-> "'"] >>

startsWith(str, pre) == Len(str) >= Len(pre) /\ SubSeq(str, 1, Len(pre)) = pre

RECURSIVE decodeText(_)
\* [ok, text]: the attribute value of raw text
decodeText(raw) ==
    IF raw = <<>> THEN [ok |-> TRUE, text |-> <<>>]
    ELSE IF Head(raw) = "<" THEN [ok |-> FALSE, text |-> <<>>]
    ELSE IF Head(raw) = "&"
    THEN IF \E k \in 1..Len(Entities) : startsWith(raw, Entities[k].text)
         THEN LET k == CHOOSE k \in 1..Len(Entities) : startsWith(raw, Entities[k].text)
                  rest == decodeText(SubSeq(raw, Len(Entities[k].text) + 1, Len(raw)))
              IN [ok |-> rest.ok, text |-> <<Entities[k].char>> \o rest.text]
         ELSE [ok |-> FALSE, text |-> <<>>]
    ELSE LET rest == decodeText(Tail(raw))
         IN [ok |-> rest.ok, text |-> <<Head(raw)>> \o rest.text]

\* elem.getAttribute(name): None when the attribute is absent
getAttribute(attr) == IF attr = None THEN None ELSE Some(decodeText(attr[1]).text)

attributeOk(attr) == attr = None \/ decodeText(attr[1]).ok

nodeOk(node) ==
    attributeOk(node.id) /\ attributeOk(node.name)
    /\ attributeOk(node.sourceRef) /\ attributeOk(node.targetRef)

-----------------------------------------------------------------------------
(* XML parser (json-generator.ts, class BpmnJsonGenerator).                *)
(* g = [elements, flows]: the two Maps, in insertion order.                *)

parserLabeledElements ==
    {"task", "userTask", "serviceTask", "exclusiveGateway", "startEvent", "endEvent"}

parserSupportedElements == parserLabeledElements \cup {"parallelGateway"}

\* Map.set: a present key keeps its position and takes the new value
mapSet(m, entry) ==
    IF \E i \in 1..Len(m) : m[i].id = entry.id
    THEN [i \in 1..Len(m) |-> IF m[i].id = entry.id THEN entry ELSE m[i]]
    ELSE Append(m, entry)

mapHas(m, id) == \E i \in 1..Len(m) : m[i].id = id
mapGet(m, id) == m[CHOOSE i \in 1..Len(m) : m[i].id = id]

RECURSIVE getElementsAndFlows(_, _, _)
\* the loop over processElement.children from child i
getElementsAndFlows(g, children, i) ==
    IF i > Len(children) THEN g
    ELSE LET elem == children[i]
             tag == elem.tag
             elemId == getAttribute(elem.id)
             g1 == IF ~Truthy(elemId) THEN g
                   ELSE IF tag \in parserSupportedElements
                   THEN LET name == getAttribute(elem.name)
                        IN [g EXCEPT !.elements =
                               mapSet(@, [type |-> tag, id |-> elemId[1],
                                          label |-> IF tag \in parserLabeledElements
                                                       /\ Truthy(name)
                                                    THEN name ELSE None])]
                   ELSE IF tag = "sequenceFlow"
                   THEN LET sourceRef == getAttribute(elem.sourceRef)
                            targetRef == getAttribute(elem.targetRef)
                            condition == getAttribute(elem.name)
                        IN IF Truthy(sourceRef) /\ Truthy(targetRef)
                           THEN [g EXCEPT !.flows =
                                    mapSet(@, [id |-> elemId[1], source |-> sourceRef[1],
                                               target |-> targetRef[1],
                                               condition |-> OrNull(condition)])]
                           ELSE g
                   ELSE g
         IN getElementsAndFlows(g1, children, i + 1)

getOutgoingFlows(g, elementId) == SelectSeq(g.flows, LAMBDA flow : flow.source = elementId)

isExclusiveGatewayId(g, elementId) ==
    mapHas(g.elements, elementId) /\ mapGet(g.elements, elementId).type = "exclusiveGateway"

isParallelGatewayId(g, elementId) ==
    mapHas(g.elements, elementId) /\ mapGet(g.elements, elementId).type = "parallelGateway"

RECURSIVE traceFlows(_, _, _, _, _), traceQueue(_, _, _)
\* traceFlows with the path of the entry recorded as it is when the next ID
\* was visited before
traceFlowsUnrecorded(current, outgoing, k, queue, paths) ==
    IF k > Len(outgoing) THEN [queue |-> queue, paths |-> paths]
    ELSE LET nextId == outgoing[k].target
         IN IF nextId \notin current.visited
            THEN traceFlows(current, outgoing, k + 1,
                            Append(queue, [id |-> nextId,
                                           path |-> Append(current.path, nextId),
                                           visited |-> current.visited \cup {nextId}]),
                            paths)
            ELSE traceFlows(current, outgoing, k + 1, queue,
                            Append(paths, current.path))

\* the for loop over the outgoing flows of the dequeued entry, from flow k:
\* [queue, paths]
traceFlows(current, outgoing, k, queue, paths) ==
    IF k > Len(outgoing) THEN [queue |-> queue, paths |-> paths]
    ELSE LET nextId == outgoing[k].target
         IN IF nextId \notin current.visited
            THEN traceFlows(current, outgoing, k + 1,
                            Append(queue, [id |-> nextId,
                                           path |-> Append(current.path, nextId),
                                           visited |-> current.visited \cup {nextId}]),
                            paths)
            ELSE traceFlows(current, outgoing, k + 1, queue,
                            Append(paths, Append(current.path, nextId)))

\* the while loop of tracePaths
traceQueue(g, queue, paths) ==
    IF queue = <<>> THEN paths
    ELSE LET current == Head(queue)
             outgoing == getOutgoingFlows(g, current.id)
         IN IF outgoing = <<>>
            THEN traceQueue(g, Tail(queue), Append(paths, current.path))
            ELSE LET r == traceFlows(current, outgoing, 1, Tail(queue), paths)
                 IN traceQueue(g, r.queue, r.paths)

tracePaths(g, gatewayId) ==
    LET outgoingFlows == getOutgoingFlows(g, gatewayId)
        queue == [k \in 1..Len(outgoingFlows) |->
                     [id |-> outgoingFlows[k].target,
                      path |-> <<outgoingFlows[k].target>>,
                      visited |-> {gatewayId, outgoingFlows[k].target}]]
    IN traceQueue(g, queue, <<>>)

\* None, or Some(id) of the first element of paths[0] that every path includes
firstInEveryPath(paths) ==
    LET inAll(id) == \A p \in 1..Len(paths) : id \in SeqToSet(paths[p])
    IN IF paths = <<>> THEN None
       ELSE IF \E k \in 1..Len(paths[1]) : inAll(paths[1][k])
       THEN LET k == CHOOSE k \in 1..Len(paths[1]) :
                        /\ inAll(paths[1][k])
                        /\ \A j \in 1..(k - 1) : ~inAll(paths[1][j])
            IN Some(paths[1][k])
       ELSE None

findCommonBranchEndpoint(g, gatewayId) == firstInEveryPath(tracePaths(g, gatewayId))


\* results of the parser: a thrown Error is [ok |-> FALSE, err |-> message]
Returned(val) == [ok |-> TRUE, val |-> val, err |-> ""]
Thrown(msg) == [ok |-> FALSE, val |-> <<>>, err |-> msg]

\* index of the first failed result of a sequence of results, 0 if none
firstThrown(rs) ==
    IF \E i \in 1..Len(rs) : ~rs[i].ok
    THEN CHOOSE i \in 1..Len(rs) : ~rs[i].ok /\ \A j \in 1..(i - 1) : rs[j].ok
    ELSE 0

\* the `next` of a branch that ends in a gateway whose join is joinId:
\* the target of the join's only flow, unless it is the common endpoint
nextAfterJoin(g, joinId, commonEndpoint) ==
    IF joinId = None THEN None
    ELSE IF Len(getOutgoingFlows(g, joinId[1])) = 1
            /\ Some(getOutgoingFlows(g, joinId[1])[1].target) # commonEndpoint
    THEN Some(getOutgoingFlows(g, joinId[1])[1].target)
    ELSE None

\* nextAfterLast without the comparison of the target of a task's flow with
\* the common endpoint
nextAfterLastAnyTarget(g, lastElement, commonEndpoint) ==
    IF lastElement.type = "exclusiveGateway"
    THEN IF lastElement.has_join # Some(TRUE) THEN None
         ELSE nextAfterJoin(g, findCommonBranchEndpoint(g, lastElement.id), commonEndpoint)
    ELSE IF lastElement.type = "parallelGateway"
    THEN nextAfterJoin(g, findCommonBranchEndpoint(g, lastElement.id), commonEndpoint)
    ELSE IF Len(getOutgoingFlows(g, lastElement.id)) = 1
    THEN Some(getOutgoingFlows(g, lastElement.id)[1].target)
    ELSE None

\* the `next` of a branch whose path ends in lastElement
nextAfterLast(g, lastElement, commonEndpoint) ==
    IF lastElement.type = "exclusiveGateway"
    THEN IF lastElement.has_join # Some(TRUE) THEN None
         ELSE nextAfterJoin(g, findCommonBranchEndpoint(g, lastElement.id), commonEndpoint)
    ELSE IF lastElement.type = "parallelGateway"
    THEN nextAfterJoin(g, findCommonBranchEndpoint(g, lastElement.id), commonEndpoint)
    ELSE IF Len(getOutgoingFlows(g, lastElement.id)) = 1
            /\ Some(getOutgoingFlows(g, lastElement.id)[1].target) # commonEndpoint
    THEN Some(getOutgoingFlows(g, lastElement.id)[1].target)
    ELSE None

\* the `next` of a branch built from flow, whose path is branchPath
branchNext(g, flow, branchPath, commonEndpoint) ==
    IF branchPath = <<>>
    THEN IF Some(flow.target) # commonEndpoint THEN Some(flow.target) ELSE None
    ELSE nextAfterLast(g, branchPath[Len(branchPath)], commonEndpoint)

\* commonEndpoint && this.isExclusiveGateway(commonEndpoint)
joinFound(g, commonEndpoint) ==
    commonEndpoint # None /\ isExclusiveGatewayId(g, commonEndpoint[1])

\* the branch objects of an exclusive gateway from its outgoing flows and the
\* paths built for them
branchObjects(g, outgoingFlows, paths, commonEndpoint) ==
    [k \in 1..Len(outgoingFlows) |->
        ExclusiveBranch(IF Truthy(outgoingFlows[k].condition)
                        THEN outgoingFlows[k].condition[1] ELSE <<>>,
                        paths[k].val,
                        branchNext(g, outgoingFlows[k], paths[k].val, commonEndpoint))]

RECURSIVE buildStructureRecursive(_, _, _, _), continueWith(_, _, _, _, _),
          buildExclusiveGateway(_, _, _, _, _), exclusiveGatewayBuilt(_, _, _, _, _, _),
          buildParallelGateway(_, _, _, _, _), parallelGatewayBuilt(_, _, _, _, _, _)

\* result.push(...buildStructureRecursive(nextId, stopAt, visited)) after
\* result = [first]
continueWith(g, first, nextId, stopAt, visited) ==
    LET rest == buildStructureRecursive(g, nextId, stopAt, visited)
    IN IF rest.ok THEN Returned(<<first>> \o rest.val) ELSE rest

\* the exclusive gateway currentId with the paths built for its branches
exclusiveGatewayBuilt(g, currentId, stopAt, visited, commonEndpoint, paths) ==
    IF firstThrown(paths) # 0 THEN paths[firstThrown(paths)]
    ELSE LET currentElement == mapGet(g.elements, currentId)
             gateway == ExclusiveGateway(
                            currentElement.id,
                            Some(IF Truthy(currentElement.label)
                                 THEN currentElement.label[1] ELSE <<>>),
                            joinFound(g, commonEndpoint),
                            branchObjects(g, getOutgoingFlows(g, currentId), paths,
                                          commonEndpoint))
         IN IF joinFound(g, commonEndpoint)
            THEN continueWith(g, gateway,
                              getOutgoingFlows(g, commonEndpoint[1])[1].target,
                              stopAt, visited)
            ELSE IF Truthy(commonEndpoint)
            THEN continueWith(g, gateway, commonEndpoint[1], stopAt, visited)
            ELSE Returned(<<gateway>>)

\* the exclusive gateway branch of buildStructureRecursive
buildExclusiveGateway(g, currentId, stopAt, visited, commonEndpoint) ==
    IF joinFound(g, commonEndpoint) /\ Len(getOutgoingFlows(g, commonEndpoint[1])) # 1
    THEN Thrown("Join gateway should have exactly one outgoing flow")
    ELSE exclusiveGatewayBuilt(
             g, currentId, stopAt, visited, commonEndpoint,
             [k \in 1..Len(getOutgoingFlows(g, currentId)) |->
                 buildStructureRecursive(g, getOutgoingFlows(g, currentId)[k].target,
                                         commonEndpoint, visited)])

\* the parallel gateway currentId with the paths built for its branches
parallelGatewayBuilt(g, currentId, stopAt, visited, joinElement, paths) ==
    IF firstThrown(paths) # 0 THEN paths[firstThrown(paths)]
    ELSE continueWith(g,
                      ParallelGateway(mapGet(g.elements, currentId).id,
                                      [k \in 1..Len(paths) |-> paths[k].val]),
                      getOutgoingFlows(g, joinElement[1])[1].target, stopAt, visited)

\* the parallel gateway branch of buildStructureRecursive
buildParallelGateway(g, currentId, stopAt, visited, joinElement) ==
    IF \/ joinElement = None
       \/ ~isParallelGatewayId(g, joinElement[1])
       \/ Len(getOutgoingFlows(g, joinElement[1])) # 1
    THEN Thrown("Parallel gateway must have a corresponding join gateway")
    ELSE parallelGatewayBuilt(
             g, currentId, stopAt, visited, joinElement,
             [k \in 1..Len(getOutgoingFlows(g, currentId)) |->
                 buildStructureRecursive(g, getOutgoingFlows(g, currentId)[k].target,
                                         joinElement, visited)])

buildStructureRecursive(g, currentId, stopAt, visited) ==
    IF currentId \in visited \/ Some(currentId) = stopAt THEN Returned(<<>>)
    ELSE IF ~mapHas(g.elements, currentId) THEN Thrown("Element not found")
    ELSE IF mapGet(g.elements, currentId).type = "exclusiveGateway"
    THEN buildExclusiveGateway(g, currentId, stopAt, visited \cup {currentId},
                               findCommonBranchEndpoint(g, currentId))
    ELSE IF mapGet(g.elements, currentId).type = "parallelGateway"
    THEN buildParallelGateway(g, currentId, stopAt, visited \cup {currentId},
                              findCommonBranchEndpoint(g, currentId))
    ELSE LET currentElement == mapGet(g.elements, currentId)
             element == Leaf(currentElement.type, currentElement.id,
                             IF Truthy(currentElement.label) THEN currentElement.label
                             ELSE None)
         IN IF Len(getOutgoingFlows(g, currentId)) = 1
            THEN continueWith(g, element, getOutgoingFlows(g, currentId)[1].target,
                              stopAt, visited \cup {currentId})
            ELSE Returned(<<element>>)

\* createBpmnJson on a document [process |-> None | Some(children)]
\* createBpmnJson after its first two statements: maps holds what the fields
\* this.elements and this.flows hold when the document is read
createBpmnJsonWith(maps, bpmnXml) ==
    IF bpmnXml.process # None
       /\ \E i \in 1..Len(bpmnXml.process[1]) : ~nodeOk(bpmnXml.process[1][i])
    THEN Thrown("XML parsing error")
    ELSE IF bpmnXml.process = None THEN Thrown("No process element found in BPMN XML")
    ELSE LET g == getElementsAndFlows(maps, bpmnXml.process[1], 1)
             startEvents == SelectSeq(g.elements, LAMBDA elem : elem.type = "startEvent")
         IN IF Len(startEvents) # 1
            THEN Thrown("Process must contain exactly one start event")
            ELSE buildStructureRecursive(g, startEvents[1].id, None, {})

\* this.elements = new Map() ; this.flows = new Map() ; then the rest
createBpmnJson(bpmnXml) == createBpmnJsonWith([elements |-> <<>>, flows |-> <<>>], bpmnXml)


-----------------------------------------------------------------------------
(* The JS heap.  The editing functions mutate arrays of elements (splice,  *)
(* index assignment) and branch objects (branch.next = ...), so these are  *)
(* cells of a heap, addressed by their index; an element object holds, in  *)
(* branches, the addresses of its branch objects (exclusive gateway) or of *)
(* its branch arrays (parallel gateway).                                   *)

ListCell(items) ==
    [kind |-> "list", items |-> items, condition |-> <<>>, path |-> 0, next |-> None]

BranchCell(condition, path, next) ==
    [kind |-> "branch", items |-> <<>>, condition |-> condition, path |-> path,
     next |-> next]

RECURSIVE valueOf(_, _)
\* JSON.stringify: the tree of the array at addr
valueOf(h, addr) ==
    [i \in 1..Len(h[addr].items) |->
        LET obj == h[addr].items[i]
        IN IF isExclusiveGateway(obj)
           THEN [obj EXCEPT !.branches =
                    [b \in 1..Len(obj.branches) |->
                        LET cell == h[obj.branches[b]]
                        IN ExclusiveBranch(cell.condition, valueOf(h, cell.path),
                                           cell.next)]]
           ELSE IF isParallelGateway(obj)
           THEN [obj EXCEPT !.branches =
                    [b \in 1..Len(obj.branches) |-> valueOf(h, obj.branches[b])]]
           ELSE obj]

RECURSIVE storeList(_, _), storeItems(_, _), storeElement(_, _), storeBranches(_, _, _)
\* JSON.parse: new cells for the tree proc; [heap, addr]
storeList(h, proc) ==
    LET r == storeItems(h, proc)
    IN [heap |-> Append(r.heap, ListCell(r.items)), addr |-> Len(r.heap) + 1]

\* [heap, items]
storeItems(h, proc) ==
    IF proc = <<>> THEN [heap |-> h, items |-> <<>>]
    ELSE LET first == storeElement(h, Head(proc))
             rest == storeItems(first.heap, Tail(proc))
         IN [heap |-> rest.heap, items |-> <<first.obj>> \o rest.items]

\* [heap, obj]
storeElement(h, element) ==
    IF ~isGateway(element) THEN [heap |-> h, obj |-> element]
    ELSE LET r == storeBranches(h, element, 1)
         IN [heap |-> r.heap, obj |-> [element EXCEPT !.branches = r.addrs]]

\* [heap, addrs]
storeBranches(h, element, b) ==
    IF b > Len(element.branches) THEN [heap |-> h, addrs |-> <<>>]
    ELSE LET stored == storeList(h, BranchPath(element, b))
             h1 == IF isExclusiveGateway(element)
                   THEN Append(stored.heap,
                               BranchCell(element.branches[b].condition, stored.addr,
                                          element.branches[b].next))
                   ELSE stored.heap
             addr == IF isExclusiveGateway(element) THEN Len(h1) ELSE stored.addr
             rest == storeBranches(h1, element, b + 1)
         IN [heap |-> rest.heap, addrs |-> <<addr>> \o rest.addrs]

\* a copy that is the object itself
deepCloneShared(h, addr) == [heap |-> h, addr |-> addr]

\* deepClone(obj) == JSON.parse(JSON.stringify(obj)); [heap, addr]
deepClone(h, addr) == storeList(h, valueOf(h, addr))

RECURSIVE reachable(_, _)
\* the cells reachable from the array at addr
reachable(h, addr) ==
    {addr} \cup UNION {
        LET obj == h[addr].items[i]
        IN IF isExclusiveGateway(obj)
           THEN UNION {{obj.branches[b]} \cup reachable(h, h[obj.branches[b]].path) :
                          b \in 1..Len(obj.branches)}
           ELSE IF isParallelGateway(obj)
           THEN UNION {reachable(h, obj.branches[b]) : b \in 1..Len(obj.branches)}
           ELSE {}
        : i \in 1..Len(h[addr].items)}

\* garbage collection: the cells reachable from roots, renumbered in order
collect(h, roots) ==
    LET live == UNION {reachable(h, r) : r \in roots}
        rank(a) == Cardinality({c \in live : c <= a})
        cellAt(n) == CHOOSE a \in live : rank(a) = n
        moved(cell) ==
            IF cell.kind = "branch" THEN [cell EXCEPT !.path = rank(@)]
            ELSE [cell EXCEPT !.items =
                     [i \in 1..Len(cell.items) |->
                         [cell.items[i] EXCEPT !.branches =
                             [b \in 1..Len(cell.items[i].branches) |->
                                 rank(cell.items[i].branches[b])]]]]
    IN [heap |-> [n \in 1..Cardinality(live) |-> moved(h[cellAt(n)])],
        rank |-> [a \in live |-> rank(a)]]

-----------------------------------------------------------------------------
(* Path utilities on positions (helpers.ts).  A path token is an index or  *)
(* one of the keys "branches" and "path".  Indices are 1-based here.       *)

Index(i) == [k |-> "index", i |-> i]
Key(name) == [k |-> name, i |-> 0]

Found(index, path) == Some([index |-> index, path |-> path])

RECURSIVE findPositionFrom(_, _, _, _, _), findPositionInBranches(_, _, _, _, _)
\* the loop of findPositionInProcess from position index
findPositionFrom(proc, targetId, after, path, index) ==
    IF index > Len(proc) THEN None
    ELSE LET element == proc[index]
             currentPath == Append(path, Index(index))
         IN IF element.id = targetId
            THEN Found(IF after THEN index + 1 ELSE index, path)
            ELSE LET result == IF isGateway(element)
                               THEN findPositionInBranches(element, targetId, after,
                                                           currentPath, 1)
                               ELSE None
                 IN IF result # None THEN result
                    ELSE findPositionFrom(proc, targetId, after, path, index + 1)

findPositionInBranches(element, targetId, after, currentPath, branchIndex) ==
    IF branchIndex > Len(element.branches) THEN None
    ELSE LET branchPath ==
                 IF isExclusiveGateway(element)
                 THEN currentPath \o <<Key("branches"), Index(branchIndex), Key("path")>>
                 ELSE currentPath \o <<Key("branches"), Index(branchIndex)>>
             result == findPositionFrom(BranchPath(element, branchIndex), targetId,
                                        after, branchPath, 1)
         IN IF result # None THEN result
            ELSE findPositionInBranches(element, targetId, after, currentPath,
                                        branchIndex + 1)

findPositionInProcess(proc, targetId, after) ==
    findPositionFrom(proc, targetId, after, <<>>, 1)

\* findPosition(process, beforeId, afterId): [ok, pos, err]
findPosition(proc, beforeId, afterId) ==
    LET ids == SeqToSet(getAllIds(proc))
        fail(msg) == [ok |-> FALSE, pos |-> [index |-> 0, path |-> <<>>], err |-> msg]
    IN IF ~Truthy(beforeId) /\ ~Truthy(afterId)
       THEN fail("Both before_id and after_id cannot be undefined")
       ELSE IF Truthy(beforeId) /\ Truthy(afterId)
       THEN fail("Only one of before_id and after_id can be specified")
       ELSE LET id == IF Truthy(beforeId) THEN beforeId[1] ELSE afterId[1]
                result == findPositionInProcess(proc, id, ~Truthy(beforeId))
            IN IF id \notin ids THEN fail("Element with id does not exist")
               ELSE IF result = None THEN fail("Element not found")
               ELSE [ok |-> TRUE, pos |-> result[1], err |-> ""]

RECURSIVE findBranchFrom(_, _, _, _), findBranchNested(_, _, _, _)
\* findBranchFrom with the nested gateways of an element searched before the
\* branches of the element itself
findBranchNestedFirst(proc, targetCondition, path, index) ==
    IF index > Len(proc) THEN None
    ELSE LET element == proc[index]
             currentPath == Append(path, Index(index))
             here == IF isExclusiveGateway(element)
                        /\ \E b \in 1..Len(element.branches) :
                               element.branches[b].condition = targetCondition
                     THEN Some([branchIndex |->
                                   CHOOSE b \in 1..Len(element.branches) :
                                       /\ element.branches[b].condition = targetCondition
                                       /\ \A c \in 1..(b - 1) :
                                              element.branches[c].condition
                                                  # targetCondition,
                                path |-> currentPath])
                     ELSE None
             nested == IF isGateway(element)
                       THEN findBranchNested(element, targetCondition, currentPath, 1)
                       ELSE None
             result == IF nested # None THEN nested ELSE here
         IN IF result # None THEN result
            ELSE findBranchFrom(proc, targetCondition, path, index + 1)

\* the loop of findBranchByCondition from position index
findBranchFrom(proc, targetCondition, path, index) ==
    IF index > Len(proc) THEN None
    ELSE LET element == proc[index]
             currentPath == Append(path, Index(index))
             here == IF isExclusiveGateway(element)
                        /\ \E b \in 1..Len(element.branches) :
                               element.branches[b].condition = targetCondition
                     THEN Some([branchIndex |->
                                   CHOOSE b \in 1..Len(element.branches) :
                                       /\ element.branches[b].condition = targetCondition
                                       /\ \A c \in 1..(b - 1) :
                                              element.branches[c].condition
                                                  # targetCondition,
                                path |-> currentPath])
                     ELSE None
             result == IF here # None THEN here
                       ELSE IF isGateway(element)
                       THEN findBranchNested(element, targetCondition, currentPath, 1)
                       ELSE None
         IN IF result # None THEN result
            ELSE findBranchFrom(proc, targetCondition, path, index + 1)

findBranchNested(element, targetCondition, currentPath, branchIndex) ==
    IF branchIndex > Len(element.branches) THEN None
    ELSE LET branchPath ==
                 IF isExclusiveGateway(element)
                 THEN currentPath \o <<Key("branches"), Index(branchIndex), Key("path")>>
                 ELSE currentPath \o <<Key("branches"), Index(branchIndex)>>
             result == findBranchFrom(BranchPath(element, branchIndex), targetCondition,
                                      branchPath, 1)
         IN IF result # None THEN result
            ELSE findBranchNested(element, targetCondition, currentPath, branchIndex + 1)

findBranchByCondition(proc, targetCondition) ==
    findBranchFrom(proc, targetCondition, <<>>, 1)

\* findBranchPosition(process, condition): [ok, pos, err]
findBranchPosition(proc, condition) ==
    LET result == findBranchByCondition(proc, condition)
    IN IF result = None
       THEN [ok |-> FALSE, pos |-> [index |-> 0, path |-> <<>>],
             err |-> "Branch with condition does not exist"]
       ELSE [ok |-> TRUE,
             pos |-> [index |-> result[1].branchIndex,
                      path |-> Append(result[1].path, Key("branches"))],
             err |-> ""]

RECURSIVE navigate(_, _, _)
\* current = current[pathElement] for every token of path.  current is a
\* reference: an array cell, an element object, a branches array (the
\* addresses in it) or a branch cell
navigate(h, current, path) ==
    IF path = <<>> THEN current
    ELSE LET token == Head(path)
             next ==
                 IF current.k = "list"
                 THEN [k |-> "element", addr |-> 0, obj |-> h[current.addr].items[token.i]]
                 ELSE IF current.k = "element"
                 THEN [k |-> "branches", addr |-> 0, obj |-> current.obj]
                 ELSE IF current.k = "branches"
                 THEN [k |-> IF isExclusiveGateway(current.obj) THEN "branch" ELSE "list",
                       addr |-> current.obj.branches[token.i], obj |-> current.obj]
                 ELSE [k |-> "list", addr |-> h[current.addr].path, obj |-> current.obj]
         IN navigate(h, next, Tail(path))

NoObject == [type |-> "", id |-> <<>>, label |-> None, has_join |-> None, branches |-> <<>>]

ListRef(addr) == [k |-> "list", addr |-> addr, obj |-> NoObject]

-----------------------------------------------------------------------------
(* Editing functions (editing/functions.ts).  A result is the heap after   *)
(* the call and either the returned process or the error thrown.           *)

EditResult(h, processCopy, modifiedElement) ==
    [ok |-> TRUE, heap |-> h, process |-> processCopy,
     modifiedElement |-> modifiedElement, err |-> ""]

EditError(h, msg) ==
    [ok |-> FALSE, heap |-> h, process |-> 0, modifiedElement |-> NoObject, err |-> msg]

\* targetList.splice(index, 1)
spliceOut(items, index) ==
    SubSeq(items, 1, index - 1) \o SubSeq(items, index + 1, Len(items))

\* targetList.splice(index, 0, element)
spliceIn(items, index, element) ==
    SubSeq(items, 1, index - 1) \o <<element>> \o SubSeq(items, index, Len(items))

\* getAllIds(process), as the set that ids.includes tests
allIds(h, proc) == SeqToSet(getAllIds(valueOf(h, proc)))

\* the navigation to the parent and the selection of the target list: the
\* address of the array that position.path leads to in the copy
targetList(copy, position) ==
    navigate(copy.heap, ListRef(copy.addr), position.pos.path).addr

\* deleteElement from the splice on
deleteAt(copy, position) ==
    IF ~position.ok THEN EditError(copy.heap, position.err)
    ELSE IF position.pos.index > Len(copy.heap[targetList(copy, position)].items)
    THEN EditError(copy.heap, "Could not find the element to remove")
    ELSE EditResult([copy.heap EXCEPT ![targetList(copy, position)].items =
                                          spliceOut(@, position.pos.index)],
                    copy.addr,
                    copy.heap[targetList(copy, position)].items[position.pos.index])

\* deleteElement from findPosition(processCopy, elementId) on
deleteIn(processCopy, elementId) ==
    deleteAt(processCopy,
             findPosition(valueOf(processCopy.heap, processCopy.addr),
                          Some(elementId), None))

deleteElement(h, proc, elementId) ==
    IF elementId \notin allIds(h, proc)
    THEN EditError(h, "Element with id does not exist")
    ELSE deleteIn(deepClone(h, proc), elementId)

\* redirectBranch on the copy: branch.next = nextId
redirectIn(copy, position, nextId) ==
    EditResult([copy.heap EXCEPT
                   ![navigate(copy.heap, ListRef(copy.addr), position.pos.path)
                         .obj.branches[position.pos.index]].next = Some(nextId)],
               copy.addr,
               navigate(copy.heap, ListRef(copy.addr), position.pos.path).obj)

\* redirectBranch from deepClone on
redirectAt(h, proc, position, nextId) ==
    IF ~position.ok THEN EditError(h, position.err)
    ELSE redirectIn(deepClone(h, proc), position, nextId)

redirectBranch(h, proc, branchCondition, nextId) ==
    redirectAt(h, proc, findBranchPosition(valueOf(h, proc), branchCondition), nextId)

\* None, or the message of the error thrown
validatePlacementParams(ids, beforeId, afterId) ==
    IF Truthy(beforeId) /\ beforeId[1] \notin ids
    THEN Some("Element with id does not exist")
    ELSE IF Truthy(afterId) /\ afterId[1] \notin ids
    THEN Some("Element with id does not exist")
    ELSE IF Truthy(beforeId) /\ Truthy(afterId)
    THEN Some("Only one of before_id and after_id can be specified")
    ELSE IF ~Truthy(beforeId) /\ ~Truthy(afterId)
    THEN Some("At least one of before_id and after_id must be specified")
    ELSE None

\* addElement on the copy: targetList.splice(position.index, 0, element)
addIn(copy, position, element) ==
    EditResult([copy.heap EXCEPT ![targetList(copy, position)].items =
                                     spliceIn(@, position.pos.index, element)],
               copy.addr, element)

\* addElement from deepClone on
addAt(h, proc, position, element) ==
    IF ~position.ok THEN EditError(h, position.err)
    ELSE addIn(deepClone(h, proc), position, element)

\* addElement without the test of element.id against the IDs of the process
addElementAnyId(h, proc, element, beforeId, afterId) ==
    IF validatePlacementParams(allIds(h, proc), beforeId, afterId) # None
    THEN EditError(h, validatePlacementParams(allIds(h, proc), beforeId, afterId)[1])
    ELSE addAt(h, proc, findPosition(valueOf(h, proc), beforeId, afterId), element)

addElement(h, proc, element, beforeId, afterId) ==
    IF element.id \in allIds(h, proc)
    THEN EditError(h, "Element with id already exists")
    ELSE IF validatePlacementParams(allIds(h, proc), beforeId, afterId) # None
    THEN EditError(h, validatePlacementParams(allIds(h, proc), beforeId, afterId)[1])
    ELSE addAt(h, proc, findPosition(valueOf(h, proc), beforeId, afterId), element)

\* moveElement after addElement: the final process and the removed element
moveAdded(removedElement, added) ==
    IF ~added.ok THEN added
    ELSE EditResult(added.heap, added.process, removedElement)

\* moveDeleted with the Error of addElement swallowed: the process after
\* deleteElement is returned
moveDeletedOnly(deleted, beforeId, afterId) ==
    IF ~deleted.ok THEN deleted
    ELSE IF ~addElement(deleted.heap, deleted.process, deleted.modifiedElement,
                        beforeId, afterId).ok
    THEN EditResult(deleted.heap, deleted.process, deleted.modifiedElement)
    ELSE moveAdded(deleted.modifiedElement,
                   addElement(deleted.heap, deleted.process, deleted.modifiedElement,
                              beforeId, afterId))

\* moveElement after deleteElement
moveDeleted(deleted, beforeId, afterId) ==
    IF ~deleted.ok THEN deleted
    ELSE moveAdded(deleted.modifiedElement,
                   addElement(deleted.heap, deleted.process, deleted.modifiedElement,
                              beforeId, afterId))

moveElement(h, proc, elementId, beforeId, afterId) ==
    IF elementId \notin allIds(h, proc)
    THEN EditError(h, "Element with id does not exist")
    ELSE IF validatePlacementParams(allIds(h, proc), beforeId, afterId) # None
    THEN EditError(h, validatePlacementParams(allIds(h, proc), beforeId, afterId)[1])
    ELSE moveDeleted(deleteElement(h, proc, elementId), beforeId, afterId)

\* updateElement on the copy: targetList[position.index] = newElement
updateIn(copy, position, newElement) ==
    EditResult([copy.heap EXCEPT
                   ![targetList(copy, position)].items[position.pos.index] = newElement],
               copy.addr, newElement)

\* updateElement from deepClone on
updateAt(h, proc, position, newElement) ==
    IF ~position.ok THEN EditError(h, position.err)
    ELSE updateIn(deepClone(h, proc), position, newElement)

\* updateElement without the test of the type of newElement
updateElementAnyType(h, proc, newElement) ==
    IF newElement.id \notin allIds(h, proc)
    THEN EditError(h, "Element with id does not exist")
    ELSE updateAt(h, proc, findPosition(valueOf(h, proc), Some(newElement.id), None),
                  newElement)

updateElement(h, proc, newElement) ==
    IF newElement.id \notin allIds(h, proc)
    THEN EditError(h, "Element with id does not exist")
    ELSE IF newElement.type \in {"exclusiveGateway", "parallelGateway"}
    THEN EditError(h, "Cannot update a gateway element")
    ELSE updateAt(h, proc, findPosition(valueOf(h, proc), Some(newElement.id), None),
                  newElement)

-----------------------------------------------------------------------------
(* Edit proposals (editing-service.ts).  A proposal is the JSON object of  *)
(* the completion: its keys, and the values of stop, function, arguments.  *)

NoArguments ==
    [keys |-> {}, element_id |-> None, branch_condition |-> None, next_id |-> None,
     before_id |-> None, after_id |-> None, element |-> None, new_element |-> None]

FunctionCall(name, arguments) ==
    [keys |-> {"function", "arguments"}, stop |-> FALSE, function |-> Some(name),
     arguments |-> Some(arguments)]

StopSignal(value) ==
    [keys |-> {"stop"}, stop |-> value, function |-> None, arguments |-> None]

\* isStopSignal(proposal): the proposal is {stop: true}
isStopSignal(proposal) == "stop" \in proposal.keys /\ proposal.stop

validateDeleteElement(args) ==
    IF ~Truthy(args.element_id) THEN Some("Arguments should contain 'element_id' key")
    ELSE IF Cardinality(args.keys) > 1
    THEN Some("Arguments should contain only 'element_id' key")
    ELSE None

validateRedirectBranch(args) ==
    IF ~Truthy(args.branch_condition) \/ ~Truthy(args.next_id)
    THEN Some("Arguments should contain 'branch_condition' and 'next_id' keys")
    ELSE IF Cardinality(args.keys) > 2
    THEN Some("Arguments should contain only 'branch_condition' and 'next_id' keys")
    ELSE None

\* validateAddElement without the count of the keys
validateAddElementAnyKeys(args) ==
    IF args.element = None THEN Some("Arguments should contain 'element' key")
    ELSE IF Truthy(args.before_id) /\ Truthy(args.after_id)
    THEN Some("Only one of 'before_id' and 'after_id' should be provided")
    ELSE IF ~Truthy(args.before_id) /\ ~Truthy(args.after_id)
    THEN Some("Either 'before_id' or 'after_id' should be provided")
    ELSE validateElement(args.element[1])

validateAddElement(args) ==
    IF args.element = None THEN Some("Arguments should contain 'element' key")
    ELSE IF Truthy(args.before_id) /\ Truthy(args.after_id)
    THEN Some("Only one of 'before_id' and 'after_id' should be provided")
    ELSE IF ~Truthy(args.before_id) /\ ~Truthy(args.after_id)
    THEN Some("Either 'before_id' or 'after_id' should be provided")
    ELSE IF Cardinality(args.keys) > 2
    THEN Some("Arguments should contain only 'element' and either 'before_id' or 'after_id' keys")
    ELSE validateElement(args.element[1])

validateMoveElement(args) ==
    IF ~Truthy(args.element_id) THEN Some("Arguments should contain 'element_id' key")
    ELSE IF Truthy(args.before_id) /\ Truthy(args.after_id)
    THEN Some("Only one of 'before_id' and 'after_id' should be provided")
    ELSE IF ~Truthy(args.before_id) /\ ~Truthy(args.after_id)
    THEN Some("Either 'before_id' or 'after_id' should be provided")
    ELSE IF Cardinality(args.keys) > 2
    THEN Some("Arguments should contain only 'element_id' and either 'before_id' or 'after_id' keys")
    ELSE None

validateUpdateElement(args) ==
    IF args.new_element = None THEN Some("Arguments should contain 'new_element' key")
    ELSE IF Cardinality(args.keys) > 1
    THEN Some("Arguments should contain only 'new_element' key")
    ELSE validateElement(args.new_element[1])

\* validateEditProposal with the stop form accepted in every position of the
\* session
validateEditProposalStopFirst(editProposal, isFirstEdit) ==
    IF "stop" \in editProposal.keys
    THEN IF Cardinality(editProposal.keys) > 1
         THEN Some("If 'stop' key is present, no other key should be provided")
         ELSE None
    ELSE IF editProposal.function \in {None, Some("")} \/ editProposal.arguments = None
    THEN Some("Function call should contain 'function' and 'arguments' keys")
    ELSE LET functionName == editProposal.function[1]
             args == editProposal.arguments[1]
         IN IF functionName = "delete_element" THEN validateDeleteElement(args)
            ELSE IF functionName = "redirect_branch" THEN validateRedirectBranch(args)
            ELSE IF functionName = "add_element" THEN validateAddElement(args)
            ELSE IF functionName = "move_element" THEN validateMoveElement(args)
            ELSE IF functionName = "update_element" THEN validateUpdateElement(args)
            ELSE Some("Function not found")

\* None, or the message of the error thrown
validateEditProposal(editProposal, isFirstEdit) ==
    IF ~isFirstEdit /\ "stop" \in editProposal.keys
    THEN IF Cardinality(editProposal.keys) > 1
         THEN Some("If 'stop' key is present, no other key should be provided")
         ELSE None
    ELSE IF editProposal.function \in {None, Some("")} \/ editProposal.arguments = None
    THEN Some("Function call should contain 'function' and 'arguments' keys")
    ELSE LET functionName == editProposal.function[1]
             args == editProposal.arguments[1]
         IN IF functionName = "delete_element" THEN validateDeleteElement(args)
            ELSE IF functionName = "redirect_branch" THEN validateRedirectBranch(args)
            ELSE IF functionName = "add_element" THEN validateAddElement(args)
            ELSE IF functionName = "move_element" THEN validateMoveElement(args)
            ELSE IF functionName = "update_element" THEN validateUpdateElement(args)
            ELSE Some("Function not found")

editFunctions ==
    {"delete_element", "redirect_branch", "add_element", "move_element", "update_element"}

\* updateProcess(process, editProposal).  The element of the proposal is an
\* object of the parsed completion: its lists are cells of the heap.
\* case "add_element", with the element of the proposal in the heap
addProposed(proc, args, element) ==
    addElement(element.heap, proc, element.obj, args.before_id, args.after_id)

\* case "update_element", with the element of the proposal in the heap
updateProposed(proc, element) == updateElement(element.heap, proc, element.obj)

updateProcess(h, proc, editProposal) ==
    IF editProposal.function = None \/ editProposal.function[1] \notin editFunctions
    THEN EditError(h, "Unknown function")
    ELSE IF editProposal.function[1] = "delete_element"
    THEN deleteElement(h, proc, editProposal.arguments[1].element_id[1])
    ELSE IF editProposal.function[1] = "redirect_branch"
    THEN redirectBranch(h, proc, editProposal.arguments[1].branch_condition[1],
                        editProposal.arguments[1].next_id[1])
    ELSE IF editProposal.function[1] = "add_element"
    THEN addProposed(proc, editProposal.arguments[1],
                     storeElement(h, editProposal.arguments[1].element[1]))
    ELSE IF editProposal.function[1] = "move_element"
    THEN moveElement(h, proc, editProposal.arguments[1].element_id[1],
                     editProposal.arguments[1].before_id,
                     editProposal.arguments[1].after_id)
    ELSE updateProposed(proc, storeElement(h, editProposal.arguments[1].new_element[1]))

-----------------------------------------------------------------------------
(* Inputs: the hierarchical processes an LLM completion may return.        *)
(* An element's ID spells its position in the tree, so the IDs of a base   *)
(* process are unique; variants then redirect branches and rename or       *)
(* retype elements.                                                        *)

\* number of elements after the start event
MaxSize == 3
\* size up to which the variants of a base process are drawn
MaxVariantSize == 2

Letter(i) == <<"a", "b", "c", "d", "e", "f", "g", "h">>[i]
Digit(i) == <<"1", "2", "3", "4", "5", "6", "7", "8">>[i]

TaskLabel == <<"T">>
GatewayLabel == <<"G">>
Condition(b) == <<"c", Digit(b)>>
StartId == <<"s">>

RECURSIVE ElementsOfSize(_, _), ListsOfSize(_, _, _)
\* the elements with ID id whose subtree has n elements
ElementsOfSize(n, id) ==
    (IF n = 1 THEN {Leaf("task", id, Some(TaskLabel)), Leaf("endEvent", id, None)}
     ELSE {})
    \cup UNION {
        LET paths1 == ListsOfSize(a, id \o <<Digit(1)>>, 1)
            paths2 == ListsOfSize(n - 1 - a, id \o <<Digit(2)>>, 1)
        IN {ExclusiveGateway(id, Some(GatewayLabel), hasJoin,
                             <<ExclusiveBranch(Condition(1), p1, None),
                               ExclusiveBranch(Condition(2), p2, None)>>) :
                hasJoin \in BOOLEAN, p1 \in paths1, p2 \in paths2}
           \cup {ParallelGateway(id, <<p1, p2>>) : p1 \in paths1, p2 \in paths2}
        : a \in 0..(n - 1)}

\* the element lists of n elements in all, the first at position index
ListsOfSize(n, prefix, index) ==
    IF n = 0 THEN {<<>>}
    ELSE UNION {
        {<<e>> \o rest : e \in ElementsOfSize(k, prefix \o <<Letter(index)>>),
                         rest \in ListsOfSize(n - k, prefix, index + 1)}
        : k \in 1..n}

StartEvent == Leaf("startEvent", StartId, None)
EndId == <<"z">>
FinalEndEvent == Leaf("endEvent", EndId, None)

\* a start event, up to maxSize elements, and possibly a final end event
BaseProcesses(maxSize) ==
    UNION {{<<StartEvent>> \o rest \o tail : rest \in ListsOfSize(n, <<>>, 1),
                                           tail \in {<<>>, <<FinalEndEvent>>}}
           : n \in 0..maxSize}

\* positions in the tree: <<i>> is top-level element i, <<i, b, j>> is element j
\* of branch b of element i, and so on
RECURSIVE positionsOf(_, _)
positionsOf(proc, at) ==
    UNION {
        {at \o <<i>>}
        \cup (IF isGateway(proc[i])
              THEN UNION {positionsOf(BranchPath(proc[i], b), at \o <<i, b>>) :
                             b \in 1..Len(proc[i].branches)}
              ELSE {})
        : i \in 1..Len(proc)}

RECURSIVE elementAt(_, _), replaceAt(_, _, _)
elementAt(proc, pos) ==
    IF Len(pos) = 1 THEN proc[pos[1]]
    ELSE elementAt(BranchPath(proc[pos[1]], pos[2]), SubSeq(pos, 3, Len(pos)))

\* proc with the element at pos replaced by newElement
replaceAt(proc, pos, newElement) ==
    IF Len(pos) = 1 THEN [proc EXCEPT ![pos[1]] = newElement]
    ELSE LET element == proc[pos[1]]
             inner == replaceAt(BranchPath(element, pos[2]), SubSeq(pos, 3, Len(pos)),
                                newElement)
         IN [proc EXCEPT ![pos[1]] =
                IF isExclusiveGateway(element)
                THEN [element EXCEPT !.branches[pos[2]].path = inner]
                ELSE [element EXCEPT !.branches[pos[2]] = inner]]

mapAt(proc, pos, F(_)) == replaceAt(proc, pos, F(elementAt(proc, pos)))

\* one exclusive branch given a `next`
RedirectVariants(base) ==
    {mapAt(base, pos, LAMBDA e : [e EXCEPT !.branches[b].next = Some(target)]) :
        pos \in {q \in positionsOf(base, <<>>) : isExclusiveGateway(elementAt(base, q))},
        b \in 1..2,
        target \in SeqToSet(getAllIds(base))}

\* one element given the ID of another element, or the ID `${id}-join` of a gateway
RenameVariants(base) ==
    LET ids == SeqToSet(getAllIds(base))
        gateways == {q \in positionsOf(base, <<>>) : isGateway(elementAt(base, q))}
        joinIds == {JoinId(elementAt(base, q).id) : q \in gateways}
    IN {mapAt(base, pos, LAMBDA e : [e EXCEPT !.id = id]) :
           pos \in positionsOf(base, <<>>) \ {<<1>>},
           id \in (ids \cup joinIds)}

LabelPool == {None, Some(<<>>), Some(<<" ">>), Some(<<"a", "&", "<", "b">>)}

\* one element given another label, or made a start event
LeafVariants(base) ==
    LET leaves == {q \in positionsOf(base, <<>>) : ~isGateway(elementAt(base, q))}
    IN {mapAt(base, pos, LAMBDA e : [e EXCEPT !.label = label]) :
           pos \in leaves, label \in LabelPool}
       \cup {mapAt(base, pos, LAMBDA e : [e EXCEPT !.type = type]) :
           pos \in leaves, type \in {"startEvent", "endEvent", "task", "subProcess"}}

Variants(base) == RedirectVariants(base) \cup RenameVariants(base) \cup LeafVariants(base)

-----------------------------------------------------------------------------
(* The generation request (generateBpmnFromDescription), followed by the   *)
(* parse of the emitted document when it comes back in an edit request.    *)

NoStructure == EmptyStructure
NoDocument == [process |-> None]
NotParsed == Thrown("")

IdleDoc == doc = NoDocument /\ docResult = NotParsed

NoCall == [function |-> ""]

IdleCall == call = NoCall /\ callResult = <<>> /\ stream = <<>>

IdleInstances == instances = <<>> /\ results = <<>> /\ walk = <<>>

IdleSession ==
    /\ heap = <<>> /\ thisProcess = 0 /\ snapshot = <<>> /\ updated = None
    /\ phase = "idle" /\ iteration = 0 /\ attempts = 0 /\ prompt = None
    /\ calls = 0 /\ last = None /\ changeRequest = ""

\* the paths of tasks of branch b of gateway a: one task of each type and
\* label, or two tasks
TaskPaths(b) ==
    {<<Leaf(type, <<"a", Digit(b), "a">>, label)>> :
        type \in {"task", "userTask", "serviceTask"},
        label \in {Some(TaskLabel), Some(<<"a", "&", "<", "b">>)}}
    \cup {<<Leaf("task", <<"a", Digit(b), "a">>, Some(TaskLabel)),
            Leaf(type, <<"a", Digit(b), "b">>, Some(TaskLabel))>> :
              type \in {"task", "userTask"}}

\* a start event, an exclusive gateway with a join and two or three branches
\* of tasks, an end event without label or with the empty label
JoinedGatewayProcesses ==
    {<<StartEvent,
       ExclusiveGateway(<<"a">>, Some(GatewayLabel), TRUE,
                        [b \in 1..Len(paths) |->
                            ExclusiveBranch(Condition(b), paths[b], None)]),
       Leaf("endEvent", EndId, label)>> :
        label \in {None, Some(<<>>)},
        paths \in {<<p1, p2>> : p1 \in TaskPaths(1), p2 \in TaskPaths(2)}
                  \cup {<<p1, p2, p3>> : p1 \in TaskPaths(1), p2 \in TaskPaths(2),
                                         p3 \in TaskPaths(3)}}

\* an exclusive gateway without join of three branches, the first ending in
\* an end event of its own, the others leading on to what follows the gateway
EndingBranchProcesses ==
    {<<StartEvent,
       ExclusiveGateway(<<"a">>, Some(GatewayLabel), FALSE,
           <<ExclusiveBranch(Condition(1), <<Leaf("endEvent", <<"e">>, None)>>, None),
             ExclusiveBranch(Condition(2), p2, None),
             ExclusiveBranch(Condition(3),
                             <<Leaf("task", <<"y">>, Some(TaskLabel))>>, None)>>)>>
     \o rest :
        p2 \in {<<>>, <<Leaf("task", <<"x">>, Some(TaskLabel))>>},
        rest \in {<<FinalEndEvent>>,
                  <<Leaf("task", <<"t">>, Some(TaskLabel)), FinalEndEvent>>}}

Init ==
    /\ IdleInstances
    /\ pc = "llm"
    /\ \/ process \in BaseProcesses(MaxSize)
       \/ \E base \in BaseProcesses(MaxVariantSize) : process \in Variants(base)
       \/ process \in JoinedGatewayProcesses
       \/ process \in EndingBranchProcesses
    /\ flat = NoStructure /\ xml = NoDocument /\ parsed = NotParsed
    /\ IdleDoc /\ IdleSession /\ IdleCall

\* validateBpmn(process) throws: the attempt fails
GenerateRejected ==
    /\ pc = "llm"
    /\ validateBpmn(process) # None
    /\ pc' = "rejected"
    /\ UNCHANGED <<process, flat, xml, parsed, docVars, sessVars, callVars, instVars>>

\* validateBpmn(process) passes; createBpmnXml(process) is sent to the client
GenerateXml ==
    /\ pc = "llm"
    /\ validateBpmn(process) = None
    /\ flat' = transform(process, None)
    /\ xml' = [process |-> Some(processChildren(flat'))]
    /\ pc' = "emitted"
    /\ UNCHANGED <<process, parsed, docVars, sessVars, callVars, instVars>>

\* jsonGenerator.createBpmnJson(currentBpmnXml) on the emitted document
ParseEmitted ==
    /\ pc = "emitted"
    /\ parsed' = createBpmnJson(xml)
    /\ pc' = "parsed"
    /\ UNCHANGED <<process, flat, xml, docVars, sessVars, callVars, instVars>>

Next == GenerateRejected \/ GenerateXml \/ ParseEmitted

Spec == Init /\ [][Next]_vars


-----------------------------------------------------------------------------
(* The parse of an uploaded document (editBpmnFromInstructions, first      *)
(* step): any well-formed XML may arrive, not only documents the generator *)
(* emitted.                                                                *)

\* number of children of the uploaded <process> element
MaxChildren == 3

IdlePipeline(at) ==
    /\ pc = at /\ process = <<>> /\ flat = NoStructure
    /\ xml = NoDocument /\ parsed = NotParsed

UploadPrefixes == {None, Some(<<"b">>)}

\* start events with, without and with an empty id attribute; other elements,
\* one of them with the id of a start event; flows; an element of another kind
UploadNodes ==
    {XmlNode(prefix, "startEvent", id, None, None, None) :
        prefix \in UploadPrefixes,
        id \in {None, Some(<<>>), Some(<<"s">>), Some(<<"t">>)}}
    \cup {XmlNode(None, "task", Some(id), Some(TaskLabel), None, None) :
             id \in {<<"a">>, <<"s">>}}
    \cup {XmlNode(None, "endEvent", Some(<<"e">>), None, None, None),
          XmlNode(None, "lane", Some(<<"l">>), None, None, None),
          XmlNode(None, "sequenceFlow", Some(<<"f">>), None,
                  Some(<<"s">>), Some(<<"a">>)),
          XmlNode(None, "sequenceFlow", Some(<<"g">>), None,
                  Some(<<"a">>), Some(<<"e">>))}

RECURSIVE UploadChildren(_)
UploadChildren(n) ==
    IF n = 0 THEN {<<>>}
    ELSE LET shorter == UploadChildren(n - 1)
         IN shorter \cup {Append(children, node) :
                             children \in {c \in shorter : Len(c) = n - 1},
                             node \in UploadNodes}

InitUpload ==
    /\ IdleInstances
    /\ IdlePipeline("upload")
    /\ \/ doc = NoDocument
       \/ \E children \in UploadChildren(MaxChildren) : doc = [process |-> Some(children)]
    /\ docResult = NotParsed
    /\ IdleSession /\ IdleCall

\* createBpmnJson(currentBpmnXml) throws
ParseUploadFails ==
    /\ pc = "upload"
    /\ ~createBpmnJson(doc).ok
    /\ docResult' = createBpmnJson(doc)
    /\ pc' = "failed"
    /\ UNCHANGED <<process, flat, xml, parsed, doc, sessVars, callVars, instVars>>

\* createBpmnJson(currentBpmnXml) returns a process
ParseUploadReturns ==
    /\ pc = "upload"
    /\ createBpmnJson(doc).ok
    /\ docResult' = createBpmnJson(doc)
    /\ pc' = "returned"
    /\ UNCHANGED <<process, flat, xml, parsed, doc, sessVars, callVars, instVars>>

NextUpload == ParseUploadFails \/ ParseUploadReturns

SpecUpload == InitUpload /\ [][NextUpload]_vars

-----------------------------------------------------------------------------
(* The editing session (BpmnEditingService.editBpmn).  One action is one   *)
(* pass of a retry loop: the completion, its validation, its application,  *)
(* and the bookkeeping up to the next completion request.                  *)

\* default of maxRetries in applyInitialEdit
maxRetriesInitial == 4
\* defaults of maxRetries and maxIterations in applyIntermediateEdits
maxRetries == 4
maxIterations == 15

\* number of completions after which the exploration of a restructuring
\* session ends
MaxCalls == 3

Task(id, label) == Leaf("task", id, Some(label))

ExclusiveSeed ==
    <<StartEvent,
      ExclusiveGateway(<<"a">>, Some(GatewayLabel), TRUE,
                       <<ExclusiveBranch(Condition(1), <<Task(<<"a", "1", "a">>, TaskLabel)>>,
                                         None),
                         ExclusiveBranch(Condition(2), <<>>, None)>>),
      Task(<<"b">>, TaskLabel),
      FinalEndEvent>>

ParallelSeed ==
    <<StartEvent,
      ParallelGateway(<<"a">>, <<<<Task(<<"a", "1", "a">>, TaskLabel)>>,
                                 <<Task(<<"a", "2", "a">>, TaskLabel)>>>>),
      Task(<<"b">>, TaskLabel),
      FinalEndEvent>>

Completion(proposal) == [ok |-> TRUE, proposal |-> proposal, err |-> ""]

\* createJsonCompletion throws: no completion, or a completion that is not JSON
CompletionError ==
    [ok |-> FALSE, proposal |-> StopSignal(TRUE), err |-> "No response from OpenAI"]

DeleteElement(id) ==
    FunctionCall("delete_element",
                 [NoArguments EXCEPT !.keys = {"element_id"}, !.element_id = Some(id)])

RedirectBranch(condition, nextId) ==
    FunctionCall("redirect_branch",
                 [NoArguments EXCEPT !.keys = {"branch_condition", "next_id"},
                                     !.branch_condition = Some(condition),
                                     !.next_id = Some(nextId)])

AddElementAfter(element, afterId) ==
    FunctionCall("add_element",
                 [NoArguments EXCEPT !.keys = {"element", "after_id"},
                                     !.element = Some(element), !.after_id = Some(afterId)])

AddElementBefore(element, beforeId) ==
    FunctionCall("add_element",
                 [NoArguments EXCEPT !.keys = {"element", "before_id"},
                                     !.element = Some(element),
                                     !.before_id = Some(beforeId)])

MoveElementAfter(id, afterId) ==
    FunctionCall("move_element",
                 [NoArguments EXCEPT !.keys = {"element_id", "after_id"},
                                     !.element_id = Some(id), !.after_id = Some(afterId)])

MoveElementBefore(id, beforeId) ==
    FunctionCall("move_element",
                 [NoArguments EXCEPT !.keys = {"element_id", "before_id"},
                                     !.element_id = Some(id), !.before_id = Some(beforeId)])

UpdateElement(element) ==
    FunctionCall("update_element",
                 [NoArguments EXCEPT !.keys = {"new_element"},
                                     !.new_element = Some(element)])

\* a gateway that carries, in a branch, an element with the ID of task b
GatewayWithNestedB ==
    ExclusiveGateway(<<"m">>, Some(GatewayLabel), TRUE,
                     <<ExclusiveBranch(Condition(3), <<Task(<<"b">>, TaskLabel)>>, None),
                       ExclusiveBranch(Condition(4), <<>>, None)>>)

\* the completions the LLM may return for a change request
Completions(request) ==
    IF request = "relabel"
    THEN {Completion(UpdateElement(Task(<<"b">>, <<"U">>))),
          Completion(DeleteElement(<<"q">>)),
          Completion(StopSignal(TRUE)),
          CompletionError}
    ELSE {Completion(DeleteElement(<<"b">>)),
          Completion(DeleteElement(<<"a", "1", "a">>)),
          Completion(DeleteElement(<<"q">>)),
          Completion(AddElementAfter(Task(<<"n">>, TaskLabel), <<"b">>)),
          Completion(AddElementBefore(Task(<<"n">>, TaskLabel), <<"a", "1", "a">>)),
          Completion(AddElementAfter(GatewayWithNestedB, StartId)),
          Completion(MoveElementAfter(<<"a">>, <<"a", "1", "a">>)),
          Completion(MoveElementBefore(<<"b">>, <<"a", "1", "a">>)),
          Completion(RedirectBranch(Condition(1), <<"b">>)),
          Completion(UpdateElement(Task(<<"b">>, <<"U">>))),
          Completion(StopSignal(TRUE)),
          Completion([FunctionCall("delete_element", NoArguments)
                         EXCEPT !.keys = {"function"}, !.arguments = None]),
          CompletionError}

\* the process passed to updateProcess by applyInitialEdit
initialEditTarget == thisProcess

\* this.process passed where updatedProcess is meant
intermediateEditTargetOriginal == thisProcess

\* the process passed to updateProcess by applyIntermediateEdits
intermediateEditTarget == updated[1]

\* the catch block of a pass: the attempt failed with the message msg
attemptFailed(h, msg) == [outcome |-> "failed", heap |-> h, process |-> 0, err |-> msg]

\* the pass after updateProcess
attemptApplied(result) ==
    IF result.ok
    THEN [outcome |-> "applied", heap |-> result.heap, process |-> result.process,
          err |-> ""]
    ELSE attemptFailed(result.heap, result.err)

\* the pass after validateEditProposal, which threw invalid[1] or returned
attemptValidated(h, target, completion, isFirstEdit, invalid) ==
    IF invalid # None THEN attemptFailed(h, invalid[1])
    ELSE IF ~isFirstEdit /\ isStopSignal(completion.proposal)
    THEN [outcome |-> "stopped", heap |-> h, process |-> target, err |-> ""]
    ELSE attemptApplied(updateProcess(h, target, completion.proposal))

\* the try block of one pass: [outcome, heap, process, err]
tryEdit(h, target, completion, isFirstEdit) ==
    IF ~completion.ok THEN attemptFailed(h, completion.err)
    ELSE attemptValidated(h, target, completion, isFirstEdit,
                          validateEditProposal(completion.proposal, isFirstEdit))

RequestPrompt(value) == [kind |-> "request", process |-> value, error |-> ""]
CurrentProcessPrompt(value) == [kind |-> "current", process |-> value, error |-> ""]
ErrorPrompt(msg) == [kind |-> "error", process |-> <<>>, error |-> msg]

NoAttempt == [outcome |-> "none", input |-> 0, before |-> <<>>]

\* what the last attempt was given and how it ended
Attempt(outcome, input, before) ==
    [outcome |-> outcome, input |-> input, before |-> before]

InitSession(seeds, requests) ==
    /\ IdleInstances
    /\ IdlePipeline("editing")
    /\ IdleDoc /\ IdleCall
    /\ \E seed \in seeds :
           /\ heap = storeList(<<>>, seed).heap
           /\ thisProcess = storeList(<<>>, seed).addr
           /\ snapshot = seed
           /\ prompt = RequestPrompt(seed)
    /\ changeRequest \in requests
    /\ updated = None /\ phase = "initial" /\ iteration = 0 /\ attempts = 0
    /\ calls = 0 /\ last = NoAttempt

\* the session after a pass that was given the process `given` and ended with
\* result r, once the cells that nothing refers to are collected
heldAfter(r, given, updatedProcess, gc) ==
    /\ heap' = gc.heap
    /\ thisProcess' = gc.rank[thisProcess]
    /\ updated' = [i \in 1..Len(updatedProcess) |-> gc.rank[updatedProcess[i]]]
    /\ last' = Attempt(r.outcome, gc.rank[given], valueOf(heap, given))

\* the references held after a pass: this.process, updatedProcess, and the
\* process given; the other cells are garbage
afterPass(r, given, updatedProcess) ==
    heldAfter(r, given, updatedProcess,
              collect(r.heap, {thisProcess, given} \cup SeqToSet(updatedProcess)))

\* a pass whose proposal is valid and applied
appliedPass(r, given) ==
    r.outcome = "applied" /\ afterPass(r, given, Some(r.process))

\* a pass whose completion, validation or application throws
failedPass(r, given) ==
    r.outcome = "failed" /\ afterPass(r, given, updated) /\ prompt' = ErrorPrompt(r.err)

\* a pass whose proposal is the stop signal
stoppedPass(r, given) == r.outcome = "stopped" /\ afterPass(r, given, updated)

\* applyInitialEdit: the proposal is valid and applied; applyIntermediateEdits
\* starts its first iteration
InitialEditApplied ==
    /\ phase = "initial" /\ attempts < maxRetriesInitial
    /\ \E completion \in Completions(changeRequest) :
           appliedPass(tryEdit(heap, initialEditTarget, completion, TRUE),
                       initialEditTarget)
    /\ prompt' = CurrentProcessPrompt(valueOf(heap', updated'[1]))
    /\ phase' = IF 0 < maxIterations THEN "iterative" ELSE "failed"
    /\ iteration' = 0
    /\ attempts' = 0
    /\ calls' = calls + 1
    /\ UNCHANGED <<snapshot, changeRequest, pipeVars, docVars,
                 callVars, instVars>>

\* applyInitialEdit: the completion, its validation or its application throws
InitialEditFailed ==
    /\ phase = "initial" /\ attempts < maxRetriesInitial
    /\ \E completion \in Completions(changeRequest) :
           failedPass(tryEdit(heap, initialEditTarget, completion, TRUE),
                      initialEditTarget)
    /\ attempts' = attempts + 1
    /\ phase' = IF attempts + 1 >= maxRetriesInitial THEN "failed" ELSE "initial"
    /\ calls' = calls + 1
    /\ UNCHANGED <<iteration, snapshot, changeRequest, pipeVars, docVars,
                 callVars, instVars>>

\* applyIntermediateEdits: the proposal is valid and applied; the next
\* iteration starts, or the iterations are used up
IntermediateEditApplied ==
    /\ phase = "iterative" /\ iteration < maxIterations /\ attempts < maxRetries
    /\ \E completion \in Completions(changeRequest) :
           appliedPass(tryEdit(heap, intermediateEditTarget, completion, FALSE),
                       intermediateEditTarget)
    /\ prompt' = IF iteration + 1 < maxIterations
                 THEN CurrentProcessPrompt(valueOf(heap', updated'[1]))
                 ELSE prompt
    /\ iteration' = iteration + 1
    /\ attempts' = 0
    /\ phase' = IF iteration + 1 < maxIterations THEN "iterative" ELSE "failed"
    /\ calls' = calls + 1
    /\ UNCHANGED <<snapshot, changeRequest, pipeVars, docVars,
                 callVars, instVars>>

\* IntermediateEditFailed with `attempts > maxRetries` as the condition of the
\* throw: after the last failed attempt the retry loop ends and the next
\* iteration starts
IntermediateEditFailedOffByOne ==
    /\ phase = "iterative" /\ iteration < maxIterations /\ attempts < maxRetries
    /\ \E completion \in Completions(changeRequest) :
           failedPass(tryEdit(heap, intermediateEditTarget, completion, FALSE),
                      intermediateEditTarget)
    /\ attempts' = IF attempts + 1 >= maxRetries THEN 0 ELSE attempts + 1
    /\ iteration' = IF attempts + 1 >= maxRetries THEN iteration + 1 ELSE iteration
    /\ phase' = IF attempts + 1 >= maxRetries /\ iteration + 1 >= maxIterations
                THEN "failed" ELSE "iterative"
    /\ calls' = calls + 1
    /\ UNCHANGED <<snapshot, changeRequest, pipeVars, docVars,
                 callVars, instVars>>

\* applyIntermediateEdits: the completion, its validation or its application
\* throws
IntermediateEditFailed ==
    /\ phase = "iterative" /\ iteration < maxIterations /\ attempts < maxRetries
    /\ \E completion \in Completions(changeRequest) :
           failedPass(tryEdit(heap, intermediateEditTarget, completion, FALSE),
                      intermediateEditTarget)
    /\ attempts' = attempts + 1
    /\ phase' = IF attempts + 1 >= maxRetries THEN "failed" ELSE "iterative"
    /\ calls' = calls + 1
    /\ UNCHANGED <<iteration, snapshot, changeRequest, pipeVars, docVars,
                 callVars, instVars>>

\* IntermediateStop with `break` in the place of `return updatedProcess`: the
\* stop proposal ends the iteration and the next iteration asks the LLM again
IntermediateStopBreaks ==
    /\ phase = "iterative" /\ iteration < maxIterations /\ attempts < maxRetries
    /\ \E completion \in Completions(changeRequest) :
           stoppedPass(tryEdit(heap, intermediateEditTarget, completion, FALSE),
                       intermediateEditTarget)
    /\ attempts' = 0
    /\ iteration' = iteration + 1
    /\ phase' = IF iteration + 1 < maxIterations THEN "iterative" ELSE "failed"
    /\ calls' = calls + 1
    /\ UNCHANGED <<prompt, snapshot, changeRequest, pipeVars, docVars,
                 callVars, instVars>>

\* applyIntermediateEdits: the proposal is the stop signal; editBpmn returns
\* updatedProcess
IntermediateStop ==
    /\ phase = "iterative" /\ iteration < maxIterations /\ attempts < maxRetries
    /\ \E completion \in Completions(changeRequest) :
           stoppedPass(tryEdit(heap, intermediateEditTarget, completion, FALSE),
                       intermediateEditTarget)
    /\ attempts' = attempts + 1
    /\ phase' = "returned"
    /\ calls' = calls + 1
    /\ UNCHANGED <<prompt, iteration, snapshot, changeRequest, pipeVars, docVars,
                 callVars, instVars>>

NextEditing ==
    \/ InitialEditApplied
    \/ InitialEditFailed
    \/ IntermediateEditApplied
    \/ IntermediateEditFailed
    \/ IntermediateStop

\* restructuring sessions, explored up to MaxCalls completions
InitRestructure == InitSession({ExclusiveSeed, ParallelSeed}, {"restructure"})

NextRestructure ==
    \/ calls < MaxCalls /\ InitialEditApplied
    \/ calls < MaxCalls /\ InitialEditFailed
    \/ calls < MaxCalls /\ IntermediateEditApplied
    \/ calls < MaxCalls /\ IntermediateEditFailed
    \/ calls < MaxCalls /\ IntermediateStop

SpecRestructure == InitRestructure /\ [][NextRestructure]_vars

\* relabelling sessions, explored to their end
InitRelabel == InitSession({ExclusiveSeed}, {"relabel"})

\* a pass of a session that has not ended comes to its end: the completion
\* request returns or throws (a step of NextEditing; one is always possible,
\* as the request may throw)
PassEnds == phase \in {"initial", "iterative"} /\ calls' = calls + 1

SpecRelabel == InitRelabel /\ [][NextEditing]_vars /\ WF_calls(PassEnds)

-----------------------------------------------------------------------------
(* The validation of a proposal on its own: validateEditProposal applied   *)
(* to the JSON objects an LLM completion may hold.                         *)

\* greatest number of keys in the arguments object of a proposal
MaxKeys == 3

ArgumentKeys ==
    <<"element_id", "branch_condition", "next_id", "before_id", "after_id",
      "element", "new_element", "comment">>

\* the values a key of the arguments may carry: for an ID or a condition the
\* empty string and a name; for an element null, an element that
\* validateElement accepts and one it rejects
ArgumentValues(key) ==
    IF key \in {"element", "new_element"}
    THEN {None, Some(Task(<<"n">>, TaskLabel)), Some(Leaf("task", <<"n">>, None))}
    ELSE IF key = "comment" THEN {None}
    ELSE {Some(<<>>), Some(<<"b">>)}

\* args with the key set to value
withKey(args, key, value) ==
    IF key = "comment" THEN [args EXCEPT !.keys = @ \cup {key}]
    ELSE [args EXCEPT !.keys = @ \cup {key}, ![key] = value]

RECURSIVE ArgumentsFrom(_, _)
\* the arguments objects with at most n of the keys from position i on
ArgumentsFrom(i, n) ==
    IF i > Len(ArgumentKeys) THEN {NoArguments}
    ELSE ArgumentsFrom(i + 1, n)
         \cup (IF n = 0 THEN {}
               ELSE {withKey(args, ArgumentKeys[i], value) :
                        args \in ArgumentsFrom(i + 1, n - 1),
                        value \in ArgumentValues(ArgumentKeys[i])})

FunctionNames == editFunctions \cup {"rename_element"}

\* function calls, with and without a stop key beside them; a function call
\* without arguments; the stop forms
Proposals ==
    {[FunctionCall(name, args) EXCEPT !.keys = @ \cup extra, !.stop = extra # {}] :
        name \in FunctionNames, args \in ArgumentsFrom(1, MaxKeys),
        extra \in {{}, {"stop"}}}
    \cup {[FunctionCall(name, NoArguments) EXCEPT !.keys = {"function"},
                                                  !.arguments = None] :
             name \in FunctionNames}
    \cup {StopSignal(TRUE), StopSignal(FALSE)}

InitProposal ==
    /\ IdleInstances
    /\ IdlePipeline("call")
    /\ IdleDoc /\ IdleSession
    /\ \E editProposal \in Proposals, isFirstEdit \in BOOLEAN :
           call = [function |-> "validateEditProposal", editProposal |-> editProposal,
                   isFirstEdit |-> isFirstEdit]
    /\ callResult = <<>> /\ stream = <<>>

\* this.validateEditProposal(editProposal, isFirstEdit) returns
ProposalAccepted ==
    /\ pc = "call"
    /\ validateEditProposal(call.editProposal, call.isFirstEdit) = None
    /\ callResult' = [ok |-> TRUE, err |-> ""]
    /\ pc' = "called"
    /\ UNCHANGED <<process, flat, xml, parsed, docVars, sessVars, call, stream, instVars>>

\* this.validateEditProposal(editProposal, isFirstEdit) throws
ProposalRejected ==
    /\ pc = "call"
    /\ validateEditProposal(call.editProposal, call.isFirstEdit) # None
    /\ callResult' = [ok |-> FALSE,
                      err |-> validateEditProposal(call.editProposal,
                                                   call.isFirstEdit)[1]]
    /\ pc' = "called"
    /\ UNCHANGED <<process, flat, xml, parsed, docVars, sessVars, call, stream, instVars>>

NextProposal == ProposalAccepted \/ ProposalRejected

SpecProposal == InitProposal /\ [][NextProposal]_vars

-----------------------------------------------------------------------------
(* An edit request (editBpmnFromInstructions): the uploaded document is    *)
(* parsed, the change request is defined, the editing session runs, its    *)
(* result is validated, converted to XML and sent.  Every throw of a step  *)
(* is caught by the one catch block of the function.                       *)

\* an event of the stream: `data: ${JSON.stringify({content, bpmnXml})}`
Event(content) == [content |-> content, error |-> "", bpmnXml |-> None]

\* `Failed to edit BPMN diagram. Error: ${error.message}`
FailureEvent(msg) ==
    [content |-> "Failed to edit BPMN diagram. Error: ", error |-> msg, bpmnXml |-> None]

\* the document sent to the client: laid out by layoutProcess, or as it was
\* generated when layoutProcess throws
UpdatedEvent(bpmnXml, laidOut) ==
    [content |-> "BPMN diagram updated successfully!", error |-> "",
     bpmnXml |-> Some([document |-> bpmnXml, laidOut |-> laidOut])]

UploadedNode(tag, id, name) == XmlNode(None, tag, Some(id), name, None, None)
UploadedFlow(id, sourceRef, targetRef) ==
    XmlNode(None, "sequenceFlow", Some(id), None, Some(sourceRef), Some(targetRef))

\* the documents of the edit requests: none; start, task b, end; the same
\* with a task without a name before task b; two start events
EditDocuments ==
    {NoDocument,
     [process |-> Some(<<UploadedNode("startEvent", StartId, None),
                         UploadedNode("task", <<"b">>, Some(TaskLabel)),
                         UploadedNode("endEvent", EndId, None),
                         UploadedFlow(<<"f">>, StartId, <<"b">>),
                         UploadedFlow(<<"g">>, <<"b">>, EndId)>>)],
     [process |-> Some(<<UploadedNode("startEvent", StartId, None),
                         UploadedNode("task", <<"a">>, None),
                         UploadedNode("task", <<"b">>, Some(TaskLabel)),
                         UploadedNode("endEvent", EndId, None),
                         UploadedFlow(<<"f">>, StartId, <<"a">>),
                         UploadedFlow(<<"g">>, <<"a">>, <<"b">>),
                         UploadedFlow(<<"h">>, <<"b">>, EndId)>>)],
     [process |-> Some(<<UploadedNode("startEvent", StartId, None),
                         UploadedNode("startEvent", <<"t">>, None)>>)]}

InitEditRequest ==
    /\ IdleInstances
    /\ IdlePipeline("request")
    /\ doc \in EditDocuments /\ docResult = NotParsed
    /\ IdleSession
    /\ call = [function |-> "editBpmnFromInstructions"]
    /\ callResult = <<>> /\ stream = <<>>

\* the catch block: the error is reported on the stream
caught(events, msg) ==
    /\ stream' = events \o <<FailureEvent(msg)>>
    /\ callResult' = Thrown(msg)
    /\ pc' = "failed"

\* jsonGenerator.createBpmnJson(currentBpmnXml) throws
AnalyzeFails ==
    /\ pc = "request"
    /\ ~createBpmnJson(doc).ok
    /\ docResult' = createBpmnJson(doc)
    /\ caught(<<Event("Analyzing changes...")>>, docResult'.err)
    /\ UNCHANGED <<process, flat, xml, parsed, doc, sessVars, call, instVars>>

\* jsonGenerator.createBpmnJson(currentBpmnXml) returns currentProcess
Analyzed ==
    /\ pc = "request"
    /\ createBpmnJson(doc).ok
    /\ docResult' = createBpmnJson(doc)
    /\ stream' = <<Event("Analyzing changes...")>>
    /\ pc' = "defining"
    /\ UNCHANGED <<process, flat, xml, parsed, doc, sessVars, call, callResult, instVars>>

\* defineChangeRequest(currentProcess, messageHistory) throws
ChangeRequestFails ==
    /\ pc = "defining"
    /\ caught(stream, CompletionError.err)
    /\ UNCHANGED <<process, flat, xml, parsed, docVars, sessVars, call, instVars>>

\* defineChangeRequest returns; new BpmnEditingService(currentProcess,
\* changeRequest)
ChangeRequestDefined ==
    /\ pc = "defining"
    /\ stream' = Append(stream, Event("Applying edits..."))
    /\ heap' = storeList(<<>>, docResult.val).heap
    /\ thisProcess' = storeList(<<>>, docResult.val).addr
    /\ snapshot' = docResult.val
    /\ prompt' = RequestPrompt(docResult.val)
    /\ changeRequest' = "relabel"
    /\ last' = NoAttempt
    /\ phase' = "initial"
    /\ pc' = "editing"
    /\ UNCHANGED <<process, flat, xml, parsed, docVars, updated, iteration, attempts,
                   calls, call, callResult, instVars>>

\* the Error editBpmn() throws when a budget of the session is used up
exhausted ==
    IF updated = None THEN "Max number of retries reached for initial edit"
    ELSE IF iteration < maxIterations THEN "Edit iteration failed after maxRetries attempts"
    ELSE "Max number of editing iterations reached"

\* editingService.editBpmn() throws
EditingFails ==
    /\ pc = "editing" /\ phase = "failed"
    /\ caught(stream, exhausted)
    /\ UNCHANGED <<process, flat, xml, parsed, docVars, sessVars, call, instVars>>

\* validateBpmn(updatedProcess) throws
UpdatedRejected ==
    /\ pc = "editing" /\ phase = "returned"
    /\ validateBpmn(valueOf(heap, updated[1])) # None
    /\ caught(stream, validateBpmn(valueOf(heap, updated[1]))[1])
    /\ UNCHANGED <<process, flat, xml, parsed, docVars, sessVars, call, instVars>>

\* UpdatedEmitted without validateBpmn(updatedProcess)
UpdatedEmittedUnvalidated ==
    /\ pc = "editing" /\ phase = "returned"
    /\ process' = valueOf(heap, updated[1])
    /\ flat' = transform(process', None)
    /\ xml' = [process |-> Some(processChildren(flat'))]
    /\ \E laidOut \in BOOLEAN : stream' = Append(stream, UpdatedEvent(xml', laidOut))
    /\ callResult' = Returned(<<>>)
    /\ pc' = "emitted"
    /\ UNCHANGED <<parsed, docVars, sessVars, call, instVars>>

\* validateBpmn(updatedProcess) passes; createBpmnXml(updatedProcess), laid
\* out if layoutProcess succeeds, is sent to the client
UpdatedEmitted ==
    /\ pc = "editing" /\ phase = "returned"
    /\ validateBpmn(valueOf(heap, updated[1])) = None
    /\ process' = valueOf(heap, updated[1])
    /\ flat' = transform(process', None)
    /\ xml' = [process |-> Some(processChildren(flat'))]
    /\ \E laidOut \in BOOLEAN : stream' = Append(stream, UpdatedEvent(xml', laidOut))
    /\ callResult' = Returned(<<>>)
    /\ pc' = "emitted"
    /\ UNCHANGED <<parsed, docVars, sessVars, call, instVars>>

NextEditRequest ==
    \/ AnalyzeFails
    \/ Analyzed
    \/ ChangeRequestFails
    \/ ChangeRequestDefined
    \/ pc = "editing" /\ InitialEditApplied
    \/ pc = "editing" /\ InitialEditFailed
    \/ pc = "editing" /\ IntermediateEditApplied
    \/ pc = "editing" /\ IntermediateEditFailed
    \/ pc = "editing" /\ IntermediateStop
    \/ EditingFails
    \/ UpdatedRejected
    \/ UpdatedEmitted

SpecEditRequest == InitEditRequest /\ [][NextEditRequest]_vars

-----------------------------------------------------------------------------
(* The editing functions on their own (editing/functions.ts): one call of  *)
(* one function on a process with unique IDs, with known and unknown IDs   *)
(* and conditions as arguments.                                            *)

\* number of elements after the start event in the processes edited
MaxEditSize == 2

UnknownId == <<"q">>

\* a gateway that carries, in a branch, a task with a new ID
GatewayWithNestedN ==
    ExclusiveGateway(<<"m">>, Some(GatewayLabel), TRUE,
                     <<ExclusiveBranch(Condition(3), <<Task(<<"n">>, TaskLabel)>>, None),
                       ExclusiveBranch(Condition(4), <<>>, None)>>)

\* the values of an ID argument for a process with the IDs ids
IdArguments(ids) == ids \cup {UnknownId}
AnchorArguments(ids) == {None} \cup {Some(id) : id \in IdArguments(ids)}

\* the elements passed to add_element and update_element: new ones and ones
\* with an ID of the process, leaves and gateways
ElementArguments(ids) ==
    {Task(<<"n">>, TaskLabel), GatewayWithNestedN}
    \cup {Task(id, <<"U">>) : id \in IdArguments(ids)}
    \cup {Leaf("endEvent", id, None) : id \in ids}
    \cup {ParallelGateway(id, <<<<>>, <<>>>>) : id \in ids}
    \cup {ExclusiveGateway(id, Some(GatewayLabel), FALSE,
                           <<ExclusiveBranch(Condition(1), <<>>, None),
                             ExclusiveBranch(Condition(2), <<>>, None)>>) : id \in ids}

EditCall(function, proc, arguments) ==
    [function |-> function, process |-> proc, arguments |-> arguments]

\* the calls of the editing functions on the process proc
EditCallsOn(proc, ids) ==
    {EditCall("delete_element", proc, [NoArguments EXCEPT !.element_id = Some(id)]) :
        id \in IdArguments(ids)}
    \cup {EditCall("redirect_branch", proc,
                   [NoArguments EXCEPT !.branch_condition = Some(Condition(c)),
                                       !.next_id = Some(nextId)]) :
              c \in 1..3, nextId \in {StartId, UnknownId}}
    \cup {EditCall("add_element", proc,
                   [NoArguments EXCEPT !.element = Some(element), !.before_id = beforeId,
                                       !.after_id = afterId]) :
              element \in {e \in ElementArguments(ids) : ~isParallelGateway(e)},
              beforeId \in AnchorArguments(ids), afterId \in AnchorArguments(ids)}
    \cup {EditCall("move_element", proc,
                   [NoArguments EXCEPT !.element_id = Some(id), !.before_id = beforeId,
                                       !.after_id = afterId]) :
              id \in IdArguments(ids),
              beforeId \in AnchorArguments(ids), afterId \in AnchorArguments(ids)}
    \cup {EditCall("update_element", proc,
                   [NoArguments EXCEPT !.new_element = Some(element)]) :
              element \in ElementArguments(ids)}

InitEditCall ==
    /\ IdleInstances
    /\ IdlePipeline("call")
    /\ IdleDoc /\ IdleSession
    /\ \E proc \in BaseProcesses(MaxEditSize) :
           call \in EditCallsOn(proc, SeqToSet(getAllIds(proc)))
    /\ callResult = <<>> /\ stream = <<>>

\* the process of the call as an object of the heap
calledOn == storeList(<<>>, call.process)

\* what a call returns, as the JSON of result.process, or the Error it throws
outcome(r) ==
    IF r.ok THEN [ok |-> TRUE, process |-> valueOf(r.heap, r.process), err |-> ""]
    ELSE [ok |-> FALSE, process |-> <<>>, err |-> r.err]

\* the call of the function named returns or throws
called(function, r) ==
    /\ pc = "call"
    /\ call.function = function
    /\ callResult' = outcome(r)
    /\ pc' = "called"
    /\ UNCHANGED <<process, flat, xml, parsed, docVars, sessVars, call, stream, instVars>>

DeleteElementCalled ==
    called("delete_element",
           deleteElement(calledOn.heap, calledOn.addr, call.arguments.element_id[1]))

RedirectBranchCalled ==
    called("redirect_branch",
           redirectBranch(calledOn.heap, calledOn.addr,
                          call.arguments.branch_condition[1], call.arguments.next_id[1]))

AddElementCalled ==
    called("add_element",
           addProposed(calledOn.addr, call.arguments,
                       storeElement(calledOn.heap, call.arguments.element[1])))

MoveElementCalled ==
    called("move_element",
           moveElement(calledOn.heap, calledOn.addr, call.arguments.element_id[1],
                       call.arguments.before_id, call.arguments.after_id))

UpdateElementCalled ==
    called("update_element",
           updateProposed(calledOn.addr,
                          storeElement(calledOn.heap, call.arguments.new_element[1])))

NextEditCall ==
    \/ DeleteElementCalled
    \/ RedirectBranchCalled
    \/ AddElementCalled
    \/ MoveElementCalled
    \/ UpdateElementCalled

SpecEditCall == InitEditCall /\ [][NextEditCall]_vars

-----------------------------------------------------------------------------
(* Properties of the generation pipeline *)

RECURSIVE exclusiveBranchesOf(_), startEventsIn(_), withoutEmptyLabels(_), withoutIds(_, _)

\* every ExclusiveBranch of the tree
exclusiveBranchesOf(proc) ==
    UNION {IF isExclusiveGateway(proc[i])
           THEN SeqToSet(proc[i].branches)
                \cup UNION {exclusiveBranchesOf(proc[i].branches[b].path) :
                               b \in 1..Len(proc[i].branches)}
           ELSE IF isParallelGateway(proc[i])
           THEN UNION {exclusiveBranchesOf(proc[i].branches[b]) :
                          b \in 1..Len(proc[i].branches)}
           ELSE {}
           : i \in 1..Len(proc)}

\* number of start events in the whole tree
startEventsIn(proc) ==
    IF proc = <<>> THEN 0
    ELSE LET element == Head(proc)
             sumOf[b \in 0..Len(element.branches)] ==
                 IF b = 0 THEN 0
                 ELSE sumOf[b - 1] + startEventsIn(BranchPath(element, b))
         IN (IF element.type = "startEvent" THEN 1 ELSE 0)
            + (IF isGateway(element) THEN sumOf[Len(element.branches)] ELSE 0)
            + startEventsIn(Tail(proc))

topLevelStartEvents(proc) ==
    Len(SelectSeq(proc, LAMBDA element : element.type = "startEvent"))

\* every branch.next names an element of the tree
NextRefsExist(proc) ==
    \A branch \in exclusiveBranchesOf(proc) :
        branch.next # None => branch.next[1] \in SeqToSet(getAllIds(proc))

\* the invariants of the data model: one start event, at the top level; unique
\* IDs; the validator's element rules; existing `next` targets
WellFormed(proc) ==
    /\ validateBpmn(proc) = None
    /\ topLevelStartEvents(proc) = 1
    /\ startEventsIn(proc) = 1
    /\ NoDuplicates(getAllIds(proc))
    /\ NextRefsExist(proc)

\* proc with every empty label removed
withoutEmptyLabels(proc) ==
    [i \in 1..Len(proc) |->
        LET element == proc[i]
            relabelled == [element EXCEPT !.label = OrNull(@)]
        IN IF isExclusiveGateway(element)
           THEN [relabelled EXCEPT !.branches =
                    [b \in 1..Len(element.branches) |->
                        [element.branches[b] EXCEPT !.path = withoutEmptyLabels(@)]]]
           ELSE IF isParallelGateway(element)
           THEN [relabelled EXCEPT !.branches =
                    [b \in 1..Len(element.branches) |->
                        withoutEmptyLabels(element.branches[b])]]
           ELSE relabelled]

\* proc without the elements whose ID is in ids
withoutIds(proc, ids) ==
    LET kept == SelectSeq(proc, LAMBDA element : element.id \notin ids)
    IN [i \in 1..Len(kept) |->
           LET element == kept[i]
           IN IF isExclusiveGateway(element)
              THEN [element EXCEPT !.branches =
                       [b \in 1..Len(element.branches) |->
                           [element.branches[b] EXCEPT !.path = withoutIds(@, ids)]]]
              ELSE IF isParallelGateway(element)
              THEN [element EXCEPT !.branches =
                       [b \in 1..Len(element.branches) |->
                           withoutIds(element.branches[b], ids)]]
              ELSE element]

\* the synthetic join IDs of the gateways of proc
syntheticJoinIds(proc) ==
    {JoinId(elementAt(proc, q).id) :
        q \in {q \in positionsOf(proc, <<>>) : isGateway(elementAt(proc, q))}}
    \ SeqToSet(getAllIds(proc))

\* parsed equals proc, modulo synthetic join elements and empty labels
SameModuloJoinsAndEmptyLabels(result, proc) ==
    withoutEmptyLabels(withoutIds(result, syntheticJoinIds(proc)))
        = withoutEmptyLabels(proc)

\* C1: Round-trip: for every well-formed hierarchical process, parsing the XML
\* emitted from its flattening returns a process equal to it, modulo synthetic
\* `-join` element IDs and the removal of empty labels.
C1_RoundTrip ==
    (pc = "parsed" /\ WellFormed(process))
        => (parsed.ok /\ SameModuloJoinsAndEmptyLabels(parsed.val, process))

flatIds == {flat.elements[i].id : i \in 1..Len(flat.elements)}

\* C4: No dangling edges: for every process accepted by the validator in which
\* every branch.next names an existing element, every sequence flow of the
\* flattener's output has a sourceRef and a targetRef that are IDs of FlatElements
\* of the same output.
C4_NoDanglingEdges ==
    (pc \in {"emitted", "parsed"} /\ NextRefsExist(process))
        => \A i \in 1..Len(flat.flows) :
               flat.flows[i].sourceRef \in flatIds /\ flat.flows[i].targetRef \in flatIds

\* a process with a redirected branch and a synthetic join has been flattened
C4_Witness ==
    /\ pc = "emitted"
    /\ NextRefsExist(process)
    /\ \E branch \in exclusiveBranchesOf(process) : branch.next # None
    /\ \E i \in 1..Len(flat.elements) : flat.elements[i].id \notin SeqToSet(getAllIds(process))
    /\ Len(flat.flows) >= 3

\* C5: Flow deduplication: in the flow list returned by the flattener for any
\* process accepted by the validator, no two flows have the same
\* (sourceRef, targetRef) pair.
C5_NoDuplicateFlows ==
    pc \in {"emitted", "parsed"}
        => \A i, j \in 1..Len(flat.flows) :
               (flat.flows[i].sourceRef = flat.flows[j].sourceRef
                /\ flat.flows[i].targetRef = flat.flows[j].targetRef) => i = j

\* C6: validate(process) fails whenever two elements anywhere in the tree share
\* an ID.
C6_DuplicateIdsRejected ==
    (pc # "llm" /\ ~NoDuplicates(getAllIds(process))) => pc = "rejected"

\* C7: validate(process) fails unless the process has exactly one startEvent at
\* the top level and no startEvent inside any branch.
C7_SingleStartEventEnforced ==
    (pc # "llm" /\ ~(topLevelStartEvents(process) = 1 /\ startEventsIn(process) = 1))
        => pc = "rejected"

-----------------------------------------------------------------------------
(* Properties of the parse of an uploaded document *)

\* the start events among the direct children of the <process> element
startEventChildren ==
    IF doc.process = None THEN 0
    ELSE Len(SelectSeq(doc.process[1], LAMBDA node : node.tag = "startEvent"))

\* C8: Parsing fails for every XML whose process element has zero start events
\* or two or more start events among its direct children.
C8_StartEventCountEnforced ==
    (pc \in {"failed", "returned"} /\ doc.process # None /\ startEventChildren # 1)
        => pc = "failed"

-----------------------------------------------------------------------------
(* Properties of the editing session *)

\* the session's current process: updatedProcess, this.process before the
\* first applied edit
currentProcess == IF updated = None THEN thisProcess ELSE updated[1]

InSession == phase # "idle"

\* C2: Purity of edits: the process given to an edit function is, after the
\* call, deep-equal to what it was before the call, when the call returns and
\* when it fails; the returned process shares no list with it; and the whole
\* session leaves the process it was constructed with unchanged.
C2_EditsArePure ==
    InSession =>
        /\ valueOf(heap, thisProcess) = snapshot
        /\ last.outcome # "none" => valueOf(heap, last.input) = last.before
        /\ last.outcome = "applied" =>
               reachable(heap, updated[1]) \cap reachable(heap, last.input) = {}

\* an edit has been applied to the result of an earlier edit
C2_Witness ==
    /\ InSession
    /\ last.outcome = "applied"
    /\ last.before # snapshot
    /\ valueOf(heap, updated[1]) # last.before

\* C3: ID uniqueness preserved: if the IDs of the process have no duplicates,
\* the IDs of the process returned by a successful edit have no duplicates.
C3_IdUniquenessPreserved ==
    (InSession /\ last.outcome = "applied" /\ NoDuplicates(getAllIds(last.before)))
        => NoDuplicates(getAllIds(valueOf(heap, updated[1])))

BudgetKept ==
    InSession =>
        /\ attempts <= maxRetries
        /\ iteration <= maxIterations
        /\ phase = "initial" => calls = attempts /\ attempts < maxRetriesInitial
        /\ phase = "iterative" =>
               /\ iteration < maxIterations /\ attempts < maxRetries
               /\ calls <= maxRetriesInitial + iteration * maxRetries + attempts
        /\ calls <= maxRetriesInitial + maxIterations * maxRetries
        /\ phase = "returned" => last.outcome = "stopped"
        /\ iteration >= maxIterations => phase = "failed"

\* a pass that is the last attempt of its step and fails ends the session
ExhaustionFails ==
    (calls' = calls + 1 /\ last'.outcome = "failed"
     /\ attempts + 1 >= (IF phase = "initial" THEN maxRetriesInitial ELSE maxRetries))
        => phase' = "failed"

\* C9: Session budget: at most 4 attempts in the initial phase, at most 15
\* iterations of at most 4 attempts, at most 64 completions in all; the session
\* ends; it fails, returning no process, when the 4 attempts of a step fail or
\* when 15 iterations pass without a stop proposal.
C9_SessionBudget ==
    /\ []BudgetKept
    /\ [][ExhaustionFails]_vars
    /\ <>(phase \in {"returned", "failed"})

\* 15 iterations of 4 attempts each have passed after 4 initial attempts
C9_Witness ==
    /\ phase = "failed"
    /\ iteration = maxIterations
    /\ calls = maxRetriesInitial + maxIterations * maxRetries

SequentialStep ==
    calls' = calls + 1 =>
        /\ last'.before = valueOf(heap, currentProcess)
        /\ last'.outcome = "applied" => updated' # None
        /\ last'.outcome = "failed" =>
               valueOf(heap', currentProcess') = valueOf(heap, currentProcess)
        /\ (last'.outcome = "applied" /\ phase' = "iterative") =>
               prompt' = CurrentProcessPrompt(valueOf(heap', currentProcess'))

\* C10: Sequential application: every applied proposal is applied to the
\* process returned by the previous applied proposal (the original process for
\* the first); a failed attempt leaves the current process unchanged; the first
\* prompt of the next iteration carries the process the iteration produced.
C10_SequentialApplication == [][SequentialStep]_vars

\* a second edit has been applied, after a failed attempt or directly
C10_Witness ==
    /\ InSession
    /\ iteration >= 1
    /\ last.outcome = "applied"
    /\ prompt.kind = "current"
    /\ prompt.process # last.before

\* the stop proposal `{"stop": true}` is valid in the iterative phase
StopIsValid ==
    phase = "iterative" =>
        tryEdit(heap, intermediateEditTarget, Completion(StopSignal(TRUE)), FALSE).outcome
            = "stopped"

\* a pass that receives the stop proposal returns updatedProcess as it is, and
\* a session that has returned asks for no completion
StopEndsSession ==
    /\ (calls' = calls + 1 /\ last'.outcome = "stopped") =>
           /\ phase = "iterative" /\ phase' = "returned"
           /\ last'.before = valueOf(heap, updated[1])
           /\ valueOf(heap', updated'[1]) = valueOf(heap, updated[1])
    /\ phase = "returned" => (calls' = calls /\ phase' = "returned")

\* C11: In the iterative phase a valid stop proposal ends the session at once:
\* no further completion is requested and the session returns the process
\* produced by the last applied proposal, also when the stop arrives on a retry
\* after failed attempts of the same iteration.
C11_StopEndsSession == []StopIsValid /\ [][StopEndsSession]_vars

\* the session has returned an edited process on a retry of a later iteration
C11_Witness ==
    /\ phase = "returned"
    /\ last.outcome = "stopped"
    /\ attempts >= 2
    /\ iteration >= 1
    /\ valueOf(heap, updated[1]) # snapshot

MissingFunctionCall == "Function call should contain 'function' and 'arguments' keys"

\* validation rejects `{"stop": true}` as the first proposal, and the pass that
\* receives it fails
StopRejectedFirst ==
    phase = "initial" =>
        /\ validateEditProposal(StopSignal(TRUE), TRUE) = Some(MissingFunctionCall)
        /\ tryEdit(heap, initialEditTarget, Completion(StopSignal(TRUE)), TRUE).outcome
               = "failed"
        /\ tryEdit(heap, initialEditTarget, Completion(StopSignal(TRUE)), TRUE).err
               = MissingFunctionCall

\* a session returns only after an edit has been applied, and then a process
\* that is not the object it was constructed with
ReturnsEdited ==
    /\ phase = "initial" => updated = None
    /\ phase = "returned" => (updated # None /\ updated[1] # thisProcess)

\* a pass of the initial phase that ends with the error of a missing function
\* call uses one attempt and applies nothing
RejectionCounts ==
    (phase = "initial" /\ calls' = calls + 1 /\ prompt' = ErrorPrompt(MissingFunctionCall))
        => /\ attempts' = attempts + 1
           /\ last'.outcome = "failed"
           /\ updated' = None
           /\ valueOf(heap', thisProcess') = valueOf(heap, thisProcess)
           /\ phase' \in {"initial", "failed"}

\* C12: A stop proposal is never accepted as the first proposal of a session:
\* in the initial phase `{stop: true}` is rejected by validation, uses one of
\* the initial attempts, applies no edit, and cannot make the session return
\* the unedited process.
C12_StopNotFirst ==
    /\ [](StopRejectedFirst /\ ReturnsEdited)
    /\ [][RejectionCounts]_vars

\* the initial phase has rejected stop proposals until its attempts ran out
C12_Witness ==
    /\ phase = "failed"
    /\ updated = None
    /\ attempts = maxRetriesInitial
    /\ prompt = ErrorPrompt(MissingFunctionCall)

-----------------------------------------------------------------------------
(* Properties of the validation of a proposal *)

\* the sets of keys the arguments of a function may have
ExactKeys(functionName) ==
    IF functionName = "delete_element" THEN {{"element_id"}}
    ELSE IF functionName = "redirect_branch" THEN {{"branch_condition", "next_id"}}
    ELSE IF functionName = "add_element"
    THEN {{"element", "before_id"}, {"element", "after_id"}}
    ELSE IF functionName = "move_element"
    THEN {{"element_id", "before_id"}, {"element_id", "after_id"}}
    ELSE IF functionName = "update_element" THEN {{"new_element"}}
    ELSE {}

\* the elements embedded in the arguments
EmbeddedElements(args) ==
    {args[key][1] : key \in {k \in {"element", "new_element"} :
                                k \in args.keys /\ args[k] # None}}

\* C13: Edit-proposal validation accepts a function-call proposal only if its
\* arguments have exactly the keys of that function, none missing and none
\* extra, and only if the embedded element passes validateElement; an unknown
\* function name is rejected.
C13_ExactArgumentKeys ==
    (pc = "called" /\ callResult.ok /\ call.editProposal.function # None)
        => /\ call.editProposal.arguments # None
           /\ call.editProposal.arguments[1].keys
                  \in ExactKeys(call.editProposal.function[1])
           /\ \A element \in EmbeddedElements(call.editProposal.arguments[1]) :
                  validateElement(element) = None

\* an add_element call with its two keys has been accepted
C13_Witness ==
    /\ pc = "called" /\ callResult.ok
    /\ call.editProposal.function = Some("add_element")
    /\ call.editProposal.arguments[1].keys = {"element", "after_id"}

-----------------------------------------------------------------------------
(* Properties of an edit request *)

\* the error the request failed with, by the step that threw it
UnderlyingError ==
    IF ~docResult.ok THEN docResult.err
    ELSE IF phase = "idle" THEN CompletionError.err
    ELSE IF phase = "failed" THEN exhausted
    ELSE validateBpmn(valueOf(heap, updated[1]))[1]

-----------------------------------------------------------------------------
(* Properties of the editing functions *)

RECURSIVE insertBeside(_, _, _, _)
\* proc with element put before, or after, the element with the ID anchorId,
\* in the list that element is in; nothing else moves
insertBeside(proc, anchorId, element, after) ==
    IF proc = <<>> THEN <<>>
    ELSE IF Head(proc).id = anchorId
    THEN (IF after THEN <<Head(proc), element>> ELSE <<element, Head(proc)>>)
         \o Tail(proc)
    ELSE <<IF isExclusiveGateway(Head(proc))
           THEN [Head(proc) EXCEPT !.branches =
                    [b \in 1..Len(@) |->
                        [@[b] EXCEPT !.path = insertBeside(@, anchorId, element, after)]]]
           ELSE IF isParallelGateway(Head(proc))
           THEN [Head(proc) EXCEPT !.branches =
                    [b \in 1..Len(@) |-> insertBeside(@[b], anchorId, element, after)]]
           ELSE Head(proc)>>
         \o insertBeside(Tail(proc), anchorId, element, after)

\* the anchors given to a call
anchorsGiven(arguments) == {arguments.before_id, arguments.after_id} \ {None}

\* exactly one anchor is given and it is an ID of the process
placementKnown(proc, arguments) ==
    /\ Cardinality(anchorsGiven(arguments)) = 1
    /\ arguments.before_id = None \/ arguments.after_id = None
    /\ \A anchor \in anchorsGiven(arguments) : anchor[1] \in SeqToSet(getAllIds(proc))

anchorOf(arguments) ==
    IF arguments.before_id # None THEN arguments.before_id[1] ELSE arguments.after_id[1]

\* C15: add_element fails, returning nothing, if the ID of the element is in
\* the tree, if the anchor is unknown, or if both or neither anchor is given;
\* otherwise it returns the process with the element inserted in the list of
\* the anchor, at any depth, at the index of the anchor (before) or the index
\* after it (after), every other element in its list and order.
C15_AddElementInserts ==
    (pc = "called" /\ call.function = "add_element") =>
        IF \/ call.arguments.element[1].id \in SeqToSet(getAllIds(call.process))
           \/ ~placementKnown(call.process, call.arguments)
        THEN ~callResult.ok /\ callResult.process = <<>>
        ELSE /\ callResult.ok
             /\ callResult.process =
                    insertBeside(call.process, anchorOf(call.arguments),
                                 call.arguments.element[1],
                                 call.arguments.after_id # None)

\* a gateway was added after an element of a branch
C15_Witness ==
    /\ pc = "called" /\ call.function = "add_element" /\ callResult.ok
    /\ call.arguments.element[1] = GatewayWithNestedN
    /\ call.arguments.after_id # None
    /\ \A i \in 1..Len(call.process) : call.process[i].id # call.arguments.after_id[1]
    /\ callResult.process # call.process

\* add_element of the value delete_element removed
thenAdd(deleted, beforeId, afterId) ==
    IF ~deleted.ok THEN deleted
    ELSE addElement(deleted.heap, deleted.process, deleted.modifiedElement,
                    beforeId, afterId)

\* delete_element(p, element_id) followed by add_element of the removed value
\* with the anchor of the call
deleteThenAdd ==
    outcome(thenAdd(deleteElement(calledOn.heap, calledOn.addr,
                                  call.arguments.element_id[1]),
                    call.arguments.before_id, call.arguments.after_id))

\* the IDs of the element with the ID id and of the elements nested in it
idsWithin(proc, id) ==
    UNION {SeqToSet(getAllIds(<<elementAt(proc, pos)>>)) :
              pos \in {q \in positionsOf(proc, <<>>) : elementAt(proc, q).id = id}}

\* C16: move_element succeeds exactly when delete_element followed by
\* add_element of the removed value with the same anchor succeeds, and then
\* returns the same process; a move of an element relative to itself or to an
\* anchor nested in it fails, and so does the sequence.
C16_MoveIsDeleteThenAdd ==
    (pc = "called" /\ call.function = "move_element") =>
        /\ callResult.ok = deleteThenAdd.ok
        /\ callResult.process = deleteThenAdd.process
        /\ (\E anchor \in anchorsGiven(call.arguments) :
                anchor[1] \in idsWithin(call.process, call.arguments.element_id[1]))
               => ~callResult.ok /\ ~deleteThenAdd.ok

\* an element of a branch was moved to another list
C16_Witness ==
    /\ pc = "called" /\ call.function = "move_element" /\ callResult.ok
    /\ \A i \in 1..Len(call.process) :
           call.process[i].id # call.arguments.element_id[1]
    /\ \E i \in 1..Len(callResult.process) :
           callResult.process[i].id = call.arguments.element_id[1]

RECURSIVE replaceById(_, _)
\* proc with the element whose ID is that of newElement replaced by
\* newElement where it stands
replaceById(proc, newElement) ==
    [i \in 1..Len(proc) |->
        IF proc[i].id = newElement.id THEN newElement
        ELSE IF isExclusiveGateway(proc[i])
        THEN [proc[i] EXCEPT !.branches =
                 [b \in 1..Len(@) |-> [@[b] EXCEPT !.path = replaceById(@, newElement)]]]
        ELSE IF isParallelGateway(proc[i])
        THEN [proc[i] EXCEPT !.branches =
                 [b \in 1..Len(@) |-> replaceById(@[b], newElement)]]
        ELSE proc[i]]

\* C17: update_element fails when the ID of new_element is not an ID of the
\* process or when new_element is an exclusive or a parallel gateway;
\* otherwise it returns the process with the element of that ID, at any
\* depth, replaced by new_element at the same position of the same list.
C17_UpdateElementReplaces ==
    (pc = "called" /\ call.function = "update_element") =>
        IF \/ call.arguments.new_element[1].id \notin SeqToSet(getAllIds(call.process))
           \/ call.arguments.new_element[1].type \in {"exclusiveGateway", "parallelGateway"}
        THEN ~callResult.ok
        ELSE /\ callResult.ok
             /\ callResult.process = replaceById(call.process, call.arguments.new_element[1])

\* an element of a branch was replaced
C17_Witness ==
    /\ pc = "called" /\ call.function = "update_element" /\ callResult.ok
    /\ \A i \in 1..Len(call.process) :
           call.process[i].id # call.arguments.new_element[1].id
    /\ callResult.process # call.process

RECURSIVE exclusiveGatewaysInOrder(_, _)
\* the positions of the exclusive gateways, the elements visited depth-first
\* in the order of their lists from the top level: an element before the
\* elements of its branches, these before the next element of its list
exclusiveGatewaysInOrder(proc, at) ==
    Concat([i \in 1..Len(proc) |->
        (IF isExclusiveGateway(proc[i]) THEN <<at \o <<i>>>> ELSE <<>>)
        \o (IF isGateway(proc[i])
            THEN Concat([b \in 1..Len(proc[i].branches) |->
                            exclusiveGatewaysInOrder(BranchPath(proc[i], b),
                                                     at \o <<i, b>>)])
            ELSE <<>>)])

hasBranch(element, condition) ==
    \E b \in 1..Len(element.branches) : element.branches[b].condition = condition

firstBranch(element, condition) ==
    CHOOSE b \in 1..Len(element.branches) :
        /\ element.branches[b].condition = condition
        /\ \A c \in 1..(b - 1) : element.branches[c].condition # condition

\* the gateways with a branch of the condition, in the order of the search
gatewaysWith(proc, condition) ==
    SelectSeq(exclusiveGatewaysInOrder(proc, <<>>),
              LAMBDA pos : hasBranch(elementAt(proc, pos), condition))

\* proc with the `next` of the first branch of the condition of the gateway at
\* pos set to nextId
redirected(proc, pos, condition, nextId) ==
    replaceAt(proc, pos,
              [elementAt(proc, pos) EXCEPT
                  !.branches[firstBranch(elementAt(proc, pos), condition)].next =
                      Some(nextId)])

\* C18: redirect_branch fails if no branch has the condition; otherwise it
\* returns the process in which the first branch with exactly that condition,
\* the elements searched depth-first in list order from the top level, has
\* its next set to next_id, known or unknown, and nothing else differs.
C18_RedirectFirstMatch ==
    (pc = "called" /\ call.function = "redirect_branch") =>
        IF gatewaysWith(call.process, call.arguments.branch_condition[1]) = <<>>
        THEN ~callResult.ok
        ELSE /\ callResult.ok
             /\ callResult.process =
                    redirected(call.process,
                               gatewaysWith(call.process,
                                            call.arguments.branch_condition[1])[1],
                               call.arguments.branch_condition[1],
                               call.arguments.next_id[1])

\* a branch of the outer of two nested gateways with the same conditions was
\* redirected to an ID that is not in the tree
C18_Witness ==
    /\ pc = "called" /\ call.function = "redirect_branch" /\ callResult.ok
    /\ call.arguments.next_id[1] = UnknownId
    /\ call.arguments.branch_condition[1] = Condition(2)
    /\ Len(gatewaysWith(call.process, Condition(2))) = 2
    /\ Len(gatewaysWith(call.process, Condition(2))[2]) > 1

-----------------------------------------------------------------------------
(* Properties of the process over a session *)

\* C19: from a process in which every ExclusiveBranch.next names an element
\* of the tree, after any sequence of successful edits every
\* ExclusiveBranch.next of the process still names an ID of the process.
C19_ReferencesPreserved ==
    (InSession /\ NextRefsExist(snapshot)) => NextRefsExist(valueOf(heap, currentProcess))

-----------------------------------------------------------------------------
(* Properties of the flattener *)

\* C20: in the output of the flattener no element of type endEvent is the
\* source of a sequence flow and its outgoing list is empty, at the top
\* level, at the end of an exclusive branch and at the end of a parallel
\* branch.
C20_EndEventsHaveNoOutgoing ==
    \A i \in 1..Len(flat.elements) :
        flat.elements[i].type = "endEvent" =>
            /\ flat.elements[i].outgoing = <<>>
            /\ \A f \in 1..Len(flat.flows) :
                   flat.flows[f].sourceRef # flat.elements[i].id

-----------------------------------------------------------------------------
(* Properties of the round trip of a joined exclusive gateway *)

\* a start event, an exclusive gateway with a join whose branches are
\* non-empty paths of tasks without a next, and an end event
JoinedGatewayShape(proc) ==
    /\ Len(proc) = 3
    /\ proc[1].type = "startEvent"
    /\ isExclusiveGateway(proc[2]) /\ proc[2].has_join = Some(TRUE)
    /\ \A b \in 1..Len(proc[2].branches) :
           /\ proc[2].branches[b].path # <<>>
           /\ proc[2].branches[b].next = None
           /\ \A i \in 1..Len(proc[2].branches[b].path) :
                  isTask(proc[2].branches[b].path[i])
    /\ proc[3].type = "endEvent"

NoInstances == [fields |-> <<>>, arrays |-> <<>>]

\* private elements = [] ; private flows = []
constructed(inst) ==
    [fields |-> Append(inst.fields, [elements |-> Len(inst.arrays) + 1,
                                     flows |-> Len(inst.arrays) + 2]),
     arrays |-> inst.arrays \o <<<<>>, <<>>>>]

\* the fields keep their collections, which are emptied in place
clearFields(inst, i) ==
    [inst EXCEPT !.arrays[inst.fields[i].elements] = <<>>,
                 !.arrays[inst.fields[i].flows] = <<>>]

\* this.elements = [] ; this.flows = []
resetFields(inst, i) ==
    [fields |-> [inst.fields EXCEPT ![i] = [elements |-> Len(inst.arrays) + 1,
                                            flows |-> Len(inst.arrays) + 2]],
     arrays |-> inst.arrays \o <<<<>>, <<>>>>]

\* what the pushes of one call leave in the collections of instance i
filled(inst, i, st) ==
    [inst EXCEPT !.arrays[inst.fields[i].elements] = @ \o st.elements,
                 !.arrays[inst.fields[i].flows] = @ \o st.flows]

\* the structure a caller reads through the collections it was handed
structureAt(inst, ref) ==
    [elements |-> inst.arrays[ref.elements], flows |-> inst.arrays[ref.flows]]

\* transform(process) on instance i
transformOn(inst, i, proc) == filled(resetFields(inst, i), i, transform(proc, None))

MaxTransforms == 3
Transformers == 1..2
TransformedProcesses == BaseProcesses(1)

InitTransform ==
    /\ IdlePipeline("transform")
    /\ IdleDoc /\ IdleSession /\ IdleCall
    /\ walk = <<>>
    /\ instances = constructed(constructed(NoInstances))
    /\ results = <<>>

\* one call of transform: the caller keeps what the call returned
TransformCalled ==
    /\ pc = "transform"
    /\ Len(results) < MaxTransforms
    /\ \E i \in Transformers, proc \in TransformedProcesses :
        /\ instances' = transformOn(instances, i, proc)
        /\ results' = Append(results, [instance |-> i, process |-> proc,
                                       structure |-> instances'.fields[i],
                                       returned |-> structureAt(instances',
                                                                instances'.fields[i])])
    /\ UNCHANGED <<pipeVars, docVars, sessVars, callVars, walk>>

NextTransform == TransformCalled

SpecTransform == InitTransform /\ [][NextTransform]_vars

\* C22: the structures returned by transform for the same process, on one
\* transformer or on two, hold the same elements and the same flows in the
\* same order, and every structure a caller holds still reads as it read when
\* its call returned, whatever calls of transform came after it.
C22_FlowDeterminism ==
    \A i \in 1..Len(results) :
        /\ structureAt(instances, results[i].structure) = results[i].returned
        /\ \A j \in 1..Len(results) :
               results[j].process = results[i].process =>
                   structureAt(instances, results[j].structure)
                       = structureAt(instances, results[i].structure)

\* the same process flattened on both instances, and again on the first after
\* another process was flattened there
C22_Witness ==
    /\ Len(results) = 3
    /\ results[1].instance = results[3].instance
    /\ results[1].instance # results[2].instance
    /\ results[1].process = results[2].process
    /\ results[3].process # results[1].process
    /\ results[1].returned.flows # <<>>
    /\ results[3].returned # results[1].returned

(***************************************************************************)
(* Requests served at the same time.  The module of the assistant holds    *)
(* one generator and one parser for all requests.  A request runs until    *)
(* it awaits (the model's answers, the layout); whatever it runs between   *)
(* two awaits runs without another request in between.                     *)
(***************************************************************************)
Parser == 1
Generator == 2

\* the fields keep the maps of the call before
keptMaps(inst, i) == inst

\* this.elements = new Map() ; this.flows = new Map()
resetMaps(inst, i) ==
    [fields |-> [inst.fields EXCEPT ![i] = [elements |-> Len(inst.arrays) + 1,
                                            flows |-> Len(inst.arrays) + 2]],
     arrays |-> inst.arrays \o <<<<>>, <<>>>>]

\* the maps of instance i once getElementsAndFlows has read the document
extracted(inst, i, bpmnXml) ==
    IF bpmnXml.process = None
       \/ \E k \in 1..Len(bpmnXml.process[1]) : ~nodeOk(bpmnXml.process[1][k])
    THEN inst
    ELSE LET g == getElementsAndFlows(structureAt(inst, inst.fields[i]),
                                      bpmnXml.process[1], 1)
         IN [inst EXCEPT !.arrays[inst.fields[i].elements] = g.elements,
                         !.arrays[inst.fields[i].flows] = g.flows]

\* createBpmnJson(bpmnXml) on instance i: the value returned, read from the
\* fields of the instance
parsedOn(inst, i, bpmnXml) == createBpmnJsonWith(structureAt(inst, inst.fields[i]), bpmnXml)

Request(kind, document, proc) ==
    [kind |-> kind, doc |-> document, process |-> proc,
     at |-> IF kind = "edit" THEN "start" ELSE "llm",
     parsed |-> NotParsed, xml |-> NoDocument]

RequestProcesses == {proc \in BaseProcesses(1) : Len(proc) = 3}
Requests ==
    {Request("generate", NoDocument, proc) : proc \in RequestProcesses}
    \cup {Request("edit", document, proc) : document \in EditDocuments,
                                            proc \in RequestProcesses}

InitRequests ==
    /\ IdlePipeline("requests")
    /\ IdleDoc /\ IdleSession /\ IdleCall
    /\ walk = <<>>
    /\ instances = constructed(constructed(NoInstances))
    /\ results \in {<<r1, r2>> : r1 \in Requests, r2 \in Requests}

\* a value thrown by the parser is caught and ends the request
withParsed(r, val) ==
    [results EXCEPT ![r].parsed = val, ![r].at = IF val.ok THEN "llm" ELSE "done"]

parseStored(inst, r) ==
    /\ instances' = extracted(inst, Parser, results[r].doc)
    /\ results' = withParsed(r, parsedOn(inst, Parser, results[r].doc))

\* editBpmnFromInstructions up to its first await: the document is parsed
RequestParses ==
    /\ pc = "requests"
    /\ \E r \in 1..Len(results) :
        /\ results[r].at = "start"
        /\ parseStored(resetMaps(instances, Parser), r)
    /\ UNCHANGED <<pipeVars, docVars, sessVars, callVars, walk>>

\* from the answer of the model to the await of the layout: the process the
\* request has got is turned into XML
RequestEmits ==
    /\ pc = "requests"
    /\ \E r \in 1..Len(results) :
        /\ results[r].at = "llm"
        /\ instances' = transformOn(instances, Generator, results[r].process)
        /\ results' = [results EXCEPT
               ![r].xml = [process |-> Some(processChildren(
                              structureAt(instances', instances'.fields[Generator])))],
               ![r].at = "layout"]
    /\ UNCHANGED <<pipeVars, docVars, sessVars, callVars, walk>>

\* the layout answers and the request enqueues its event
RequestLaidOut ==
    /\ pc = "requests"
    /\ \E r \in 1..Len(results) :
        /\ results[r].at = "layout"
        /\ results' = [results EXCEPT ![r].at = "done"]
    /\ UNCHANGED <<pipeVars, docVars, sessVars, callVars, instances, walk>>

NextRequests == RequestParses \/ RequestEmits \/ RequestLaidOut

SpecRequests == InitRequests /\ [][NextRequests]_vars

\* C23: whatever the order in which two requests take their steps between
\* their awaits, what the shared parser returned to a request is what
\* createBpmnJson returns for the document of that request, and what the
\* shared generator returned to it is what createBpmnXml returns for the
\* process of that request.
C23_RequestsIndependent ==
    \A r \in 1..Len(results) :
        /\ results[r].parsed # NotParsed => results[r].parsed = createBpmnJson(results[r].doc)
        /\ results[r].xml # NoDocument => results[r].xml = createBpmnXml(results[r].process)

\* two edit requests of different documents and processes: the second parsed
\* and emitted while the first was awaiting its model, then the first emitted
C23_Witness ==
    /\ Len(results) = 2
    /\ results[1].kind = "edit" /\ results[2].kind = "edit"
    /\ results[1].doc # results[2].doc
    /\ results[1].process # results[2].process
    /\ results[1].parsed.ok /\ results[2].parsed.ok
    /\ results[1].at = "layout" /\ results[2].at = "done"
    /\ instances.arrays[instances.fields[Generator].elements] # <<>>
    /\ instances.arrays[instances.fields[Parser].elements] # <<>>

(***************************************************************************)
(* The join of an exclusive gateway in the parser.                         *)
(***************************************************************************)
JoinNotSingleFlow == "Join gateway should have exactly one outgoing flow"

\* the maps createBpmnJson reads from the emitted document
emittedMaps == getElementsAndFlows([elements |-> <<>>, flows |-> <<>>], xml.process[1], 1)

\* the endpoint is an exclusive gateway with exactly one outgoing flow
singleFlowJoin(g, commonEndpoint) ==
    /\ joinFound(g, commonEndpoint)
    /\ Len(getOutgoingFlows(g, commonEndpoint[1])) = 1

\* where the claim has the parser go on after the gateway
continuation(g, commonEndpoint) ==
    IF singleFlowJoin(g, commonEndpoint)
    THEN getOutgoingFlows(g, commonEndpoint[1])[1].target
    ELSE commonEndpoint[1]

\* element k of the list the parser returned is built as the claim has it
builtByRule(g, list, k, commonEndpoint) ==
    /\ list[k].has_join = Some(singleFlowJoin(g, commonEndpoint))
    /\ k < Len(list) => list[k + 1].id = continuation(g, commonEndpoint)

\* C24: the parse of an emitted document does not fail at the join of an
\* exclusive gateway; every exclusive gateway of the returned list has
\* has_join = true exactly when its common branch endpoint is an exclusive
\* gateway with exactly one outgoing flow, and the element after it in the list
\* is then the successor of the join, otherwise the endpoint itself.
C24_JoinOrEndpoint ==
    pc = "parsed" =>
        /\ parsed.err # JoinNotSingleFlow
        /\ parsed.ok =>
               \A k \in 1..Len(parsed.val) :
                   isExclusiveGateway(parsed.val[k]) =>
                       builtByRule(emittedMaps, parsed.val, k,
                                   findCommonBranchEndpoint(emittedMaps, parsed.val[k].id))

(***************************************************************************)
(* The parser step by step.  walk.stack holds the calls of                 *)
(* buildStructureRecursive that are still to be made, the next one first;  *)
(* the trail of a call lists the IDs expanded by the calls it is nested    *)
(* in, which is what its visited set holds.  A call on a gateway first     *)
(* runs the loop of tracePaths, one dequeued entry per step.               *)
(***************************************************************************)
WalkCall(id, stopAt, trail) == [id |-> id, stopAt |-> stopAt, trail |-> trail]

WalkElement(type, id) == [type |-> type, id |-> id, label |-> None]
WalkFlow(source, target) ==
    [id |-> source \o <<"-">> \o target, source |-> source, target |-> target,
     condition |-> None]

\* the flows from source to the chosen ones of the candidates, in their order
flowsTo(source, candidates, chosen) ==
    LET targets == SelectSeq(candidates, LAMBDA t : t \in chosen)
    IN [k \in 1..Len(targets) |-> WalkFlow(source, targets[k])]

WalkIds == [a |-> <<"a">>, b |-> <<"b">>, c |-> <<"c">>, q |-> <<"q">>]

WalkTargets == <<WalkIds.a, WalkIds.b, WalkIds.c, EndId, WalkIds.q>>

\* the maps of an uploaded document: a start event, three elements, an end
\* event and flows among them, back and forth; q is the ID of no element
WalkGraphs ==
    {[elements |-> <<WalkElement("startEvent", StartId), WalkElement(ta, WalkIds.a),
                     WalkElement(tb, WalkIds.b), WalkElement(tc, WalkIds.c),
                     WalkElement("endEvent", EndId)>>,
      flows |-> <<WalkFlow(StartId, WalkIds.a)>> \o flowsTo(WalkIds.a, WalkTargets, fa)
                    \o flowsTo(WalkIds.b, WalkTargets, fb)
                    \o flowsTo(WalkIds.c, WalkTargets, fc)] :
        ta \in {"exclusiveGateway", "parallelGateway"},
        tb \in {"task", "parallelGateway"},
        tc \in {"task", "exclusiveGateway"},
        fa \in (SUBSET {WalkIds.b, WalkIds.c}) \ {{}},
        fb \in SUBSET {WalkIds.a, WalkIds.c, EndId},
        fc \in SUBSET {WalkIds.a, WalkIds.b, EndId, WalkIds.q}}

InitWalk ==
    /\ IdlePipeline("walk")
    /\ IdleDoc /\ IdleSession /\ IdleCall
    /\ instances = <<>> /\ results = <<>>
    /\ \E g \in WalkGraphs :
           walk = [g |-> g, stack |-> <<WalkCall(StartId, None, <<>>)>>,
                   expanding |-> None, queue |-> <<>>, paths |-> <<>>,
                   thrown |-> FALSE, cut |-> FALSE]

walkUnchanged == UNCHANGED <<pipeVars, docVars, sessVars, callVars, instances, results>>

nextCall == Head(walk.stack)
typeOf(g, id) == mapGet(g.elements, id).type

\* if (visited.has(currentId) || currentId === stopAt) return []
CallReturnsEmpty ==
    /\ pc = "walk" /\ walk.stack # <<>> /\ walk.expanding = None
    /\ nextCall.id \in SeqToSet(nextCall.trail) \/ Some(nextCall.id) = nextCall.stopAt
    /\ walk' = [walk EXCEPT !.stack = Tail(@),
                            !.cut = @ \/ nextCall.id \in SeqToSet(nextCall.trail)]
    /\ walkUnchanged

expanded(c) ==
    /\ pc = "walk" /\ walk.stack # <<>> /\ walk.expanding = None
    /\ c.id \notin SeqToSet(c.trail) /\ Some(c.id) # c.stopAt

\* throw new Error(`Element not found: ${currentId}`)
CallThrows ==
    /\ expanded(nextCall)
    /\ ~mapHas(walk.g.elements, nextCall.id)
    /\ walk' = [walk EXCEPT !.stack = <<>>, !.thrown = TRUE]
    /\ walkUnchanged

\* a task or an event: the call goes on with the target of its only flow
ElementCalled ==
    /\ expanded(nextCall)
    /\ mapHas(walk.g.elements, nextCall.id)
    /\ typeOf(walk.g, nextCall.id) \notin {"exclusiveGateway", "parallelGateway"}
    /\ walk' = [walk EXCEPT !.stack =
                   IF Len(getOutgoingFlows(walk.g, nextCall.id)) = 1
                   THEN <<WalkCall(getOutgoingFlows(walk.g, nextCall.id)[1].target,
                                   nextCall.stopAt, Append(nextCall.trail, nextCall.id))>>
                        \o Tail(@)
                   ELSE Tail(@)]
    /\ walkUnchanged

\* the queue of tracePaths before its loop
firstQueue(gatewayId, outgoingFlows) ==
    [k \in 1..Len(outgoingFlows) |->
        [id |-> outgoingFlows[k].target,
         path |-> <<outgoingFlows[k].target>>,
         visited |-> {gatewayId, outgoingFlows[k].target}]]

\* a gateway: findCommonBranchEndpoint is called and tracePaths fills its queue
GatewayCalled ==
    /\ expanded(nextCall)
    /\ mapHas(walk.g.elements, nextCall.id)
    /\ typeOf(walk.g, nextCall.id) \in {"exclusiveGateway", "parallelGateway"}
    /\ walk' = [walk EXCEPT !.stack = Tail(@),
                            !.expanding = Some(nextCall),
                            !.queue = firstQueue(nextCall.id,
                                                 getOutgoingFlows(walk.g, nextCall.id)),
                            !.paths = <<>>]
    /\ walkUnchanged

dequeued(current, outgoing) ==
    IF outgoing = <<>>
    THEN [queue |-> Tail(walk.queue), paths |-> Append(walk.paths, current.path)]
    ELSE traceFlows(current, outgoing, 1, Tail(walk.queue), walk.paths)

traced(r) == walk' = [walk EXCEPT !.queue = r.queue, !.paths = r.paths]

\* one turn of the while loop of tracePaths
TraceStep ==
    /\ pc = "walk" /\ walk.expanding # None /\ walk.queue # <<>>
    /\ traced(dequeued(Head(walk.queue), getOutgoingFlows(walk.g, Head(walk.queue).id)))
    /\ walkUnchanged

\* the gateway whose endpoint is found throws for want of a join
joinMissing(g, c, commonEndpoint) ==
    IF typeOf(g, c.id) = "exclusiveGateway"
    THEN joinFound(g, commonEndpoint) /\ Len(getOutgoingFlows(g, commonEndpoint[1])) # 1
    ELSE \/ commonEndpoint = None
         \/ ~isParallelGatewayId(g, commonEndpoint[1])
         \/ Len(getOutgoingFlows(g, commonEndpoint[1])) # 1

\* the calls of a gateway: one per outgoing flow, bounded by the endpoint,
\* then the one that goes on after the gateway
gatewayCalls(g, c, commonEndpoint, outgoingFlows) ==
    [k \in 1..Len(outgoingFlows) |->
        WalkCall(outgoingFlows[k].target, commonEndpoint, Append(c.trail, c.id))]
    \o IF joinFound(g, commonEndpoint) \/ typeOf(g, c.id) = "parallelGateway"
       THEN <<WalkCall(getOutgoingFlows(g, commonEndpoint[1])[1].target, c.stopAt,
                       Append(c.trail, c.id))>>
       ELSE IF Truthy(commonEndpoint)
       THEN <<WalkCall(commonEndpoint[1], c.stopAt, Append(c.trail, c.id))>>
       ELSE <<>>

endpointFound(g, c, commonEndpoint) ==
    walk' = IF joinMissing(g, c, commonEndpoint)
            THEN [walk EXCEPT !.stack = <<>>, !.expanding = None, !.thrown = TRUE]
            ELSE [walk EXCEPT !.expanding = None,
                              !.stack = gatewayCalls(g, c, commonEndpoint,
                                                     getOutgoingFlows(g, c.id)) \o @]

\* the loop of tracePaths has ended: the endpoint is the first ID of the first
\* path that every path includes
TraceEnds ==
    /\ pc = "walk" /\ walk.expanding # None /\ walk.queue = <<>>
    /\ endpointFound(walk.g, walk.expanding[1], firstInEveryPath(walk.paths))
    /\ walkUnchanged

NextWalk ==
    \/ CallReturnsEmpty \/ CallThrows \/ ElementCalled \/ GatewayCalled
    \/ TraceStep \/ TraceEnds

SpecWalk == InitWalk /\ [][NextWalk]_vars /\ WF_walk(NextWalk)

WalkEnded == pc = "walk" /\ walk.stack = <<>> /\ walk.expanding = None

Front(path) == SubSeq(path, 1, Len(path) - 1)

\* a path in the queue holds no ID twice and not the gateway
walkOpen(gatewayId, entry) ==
    /\ NoDuplicates(entry.path)
    /\ gatewayId \notin SeqToSet(entry.path)
    /\ entry.visited = SeqToSet(entry.path) \cup {gatewayId}
    /\ entry.id = entry.path[Len(entry.path)]

\* a recorded path ends where nothing flows out, or with the revisit of an ID
\* of its own or of the gateway, and holds no other ID twice
walkClosed(g, gatewayId, path) ==
    /\ path # <<>>
    /\ NoDuplicates(Front(path))
    /\ gatewayId \notin SeqToSet(Front(path))
    /\ \/ path[Len(path)] \in SeqToSet(Front(path)) \cup {gatewayId}
       \/ getOutgoingFlows(g, path[Len(path)]) = <<>>

WalkBounded ==
    pc = "walk" =>
        /\ \A k \in 1..Len(walk.stack) : NoDuplicates(walk.stack[k].trail)
        /\ walk.expanding # None =>
               /\ \A k \in 1..Len(walk.queue) :
                      walkOpen(walk.expanding[1].id, walk.queue[k])
               /\ \A k \in 1..Len(walk.paths) :
                      walkClosed(walk.g, walk.expanding[1].id, walk.paths[k])
               /\ walk.queue = <<>> =>
                      walk.paths = tracePaths(walk.g, walk.expanding[1].id)

\* C25: on every set of elements and flows, with cycles or without, the
\* parser ends, returning or throwing.  Until then every entry of the queue of
\* tracePaths holds a path without a repeated ID, every recorded path ends at
\* an element without outgoing flows or with the one ID it revisits, and no
\* pending call of buildStructureRecursive has an ID twice on its trail.
C25_ParserTerminates == []WalkBounded /\ <>WalkEnded

\* a walk over a cycle has ended with a tree: a path with a revisit was
\* recorded and a call was cut short at an ID of its own trail
C25_Witness ==
    /\ WalkEnded /\ ~walk.thrown /\ walk.cut
    /\ \E k \in 1..Len(walk.paths) :
           walk.paths[k][Len(walk.paths[k])] \in SeqToSet(Front(walk.paths[k]))

\* C26: the tree the parser returns for the document emitted from a valid
\* process with unique IDs holds no ID twice.
C26_ParsedIdsUnique ==
    (pc = "parsed" /\ parsed.ok /\ NoDuplicates(getAllIds(process))) =>
        NoDuplicates(getAllIds(parsed.val))

\* C27: in the output of the flattener for a process with unique IDs no two
\* elements have the same ID, so that no join ID equals the ID of another
\* element, and no two flows have the same ID.
C27_FlatIdsDistinct ==
    (pc \in {"emitted", "parsed"} /\ NoDuplicates(getAllIds(process))) =>
        /\ NoDuplicates([i \in 1..Len(flat.elements) |-> flat.elements[i].id])
        /\ NoDuplicates([i \in 1..Len(flat.flows) |-> flat.flows[i].id])

\* the element the claim has flow into the join from a branch: the last
\* element of the branch's own list, or the join of that element
branchExit(branch) ==
    IF isGateway(branch[Len(branch)]) THEN JoinId(branch[Len(branch)].id)
    ELSE branch[Len(branch)].id

\* the flows of the structure that lead to the element target
flowsInto(st, target) == SelectSeq(st.flows, LAMBDA flow : flow.targetRef = target)

joinedPerBranch(st, gateway) ==
    LET into == flowsInto(st, JoinId(gateway.id))
        nonEmpty == {b \in 1..Len(gateway.branches) : gateway.branches[b] # <<>>}
    IN /\ Len(into) = Cardinality(nonEmpty)
       /\ {into[k].sourceRef : k \in 1..Len(into)}
              = {branchExit(gateway.branches[b]) : b \in nonEmpty}

\* C28: for every parallel gateway of a process with unique IDs, the flows into
\* its join are one per non-empty branch, each from the last element of the
\* branch's own list, or from the join of that element when it is a gateway,
\* and from no other element.
C28_JoinFedPerBranch ==
    (pc \in {"emitted", "parsed"} /\ NoDuplicates(getAllIds(process))) =>
        \A pos \in positionsOf(process, <<>>) :
            isParallelGateway(elementAt(process, pos)) =>
                joinedPerBranch(flat, elementAt(process, pos))

\* the flows of the structure that leave the element source
flowsOutOf(st, source) == SelectSeq(st.flows, LAMBDA flow : flow.sourceRef = source)

flowPerBranch(st, gateway) ==
    LET out == flowsOutOf(st, gateway.id)
    IN /\ Len(out) = Len(gateway.branches)
       /\ \A b \in 1..Len(out) : out[b].condition = Some(gateway.branches[b].condition)

\* C29: in the output of the flattener for a process with unique IDs, every
\* exclusive gateway that is followed by an element has one outgoing flow per
\* branch, in the order of the branches, each with the condition of its branch.
C29_FlowPerBranch ==
    (pc \in {"emitted", "parsed"} /\ NoDuplicates(getAllIds(process))) =>
        \A k \in 1..(Len(process) - 1) :
            isExclusiveGateway(process[k]) => flowPerBranch(flat, process[k])

\* the element at position pos of the process is at the same position of
\* the result, with its type, ID and label
keptAt(proc, result, pos) ==
    /\ pos \in positionsOf(result, <<>>)
    /\ elementAt(result, pos).type = elementAt(proc, pos).type
    /\ elementAt(result, pos).id = elementAt(proc, pos).id
    /\ elementAt(result, pos).label = elementAt(proc, pos).label

\* C30: a call of update_element that succeeds on a process with unique IDs
\* returns a process with the IDs of the input, in their order, in which every
\* element but the one with the ID of new_element is where it was, as it was,
\* whatever the type of the element that was replaced.
C30_UpdateElementFrame ==
    (/\ pc = "called" /\ call.function = "update_element" /\ callResult.ok
     /\ NoDuplicates(getAllIds(call.process))) =>
        /\ getAllIds(callResult.process) = getAllIds(call.process)
        /\ \A pos \in positionsOf(call.process, <<>>) :
               elementAt(call.process, pos).id # call.arguments.new_element[1].id =>
                   keptAt(call.process, callResult.process, pos)

====
